---- MODULE Spec2Model ----
(***************************************************************************)
(* Sony IMX585 sensor driver (drivers/media/i2c/imx585.c): the register    *)
(* bus, the buffered ("hold") register write, register program replay,     *)
(* the control setters with their cross-control range updates, format      *)
(* negotiation and the start/stop streaming sequences.                     *)
(*                                                                         *)
(* Every driver entry point (set_stream, a control write, set_fmt) is one  *)
(* action.  The bus is the environment: each action draws a fault plan     *)
(* that says which of the register writes it issues fail.  The events of   *)
(* the most recent entry-point call (register writes with their outcome,   *)
(* sleeps, runtime-PM calls, control range updates) are kept in `log`.     *)
(*                                                                         *)
(* Six specifications: Spec (one call at a time, the bus may fail),        *)
(* SpecWide (one call at a time, no bus failure, both variants and control *)
(* values at the ends of their ranges), SpecLock (overlapping calls with   *)
(* the mutexes the entry points take), SpecAttach (imx585_probe() on       *)
(* device-tree configurations it takes and ones it refuses), SpecBus       *)
(* (overlapping calls whose bus writes are issued one at a time) and       *)
(* SpecSel (SpecWide with the selection queries).                          *)
(***************************************************************************)
EXTENDS Integers, Sequences, FiniteSets, TLC

VARIABLES
    imx585,      \* struct imx585: nlanes, inck_sel, formats, current_mode, current_format, bpp
    ctrls,       \* the v4l2 control handler: control id -> range, value, flags
    pm,          \* runtime PM of the device: usage_count, active
    regs,        \* the sensor's registers the claims look at (last value written)
    try_format,  \* the try-scope pad format (v4l2_subdev_state)
    streaming,   \* whether the caller of s_stream holds the stream enabled
    log,         \* events of the most recent entry-point call
    call,        \* the most recent entry-point call and its return value
    sync         \* the two mutexes and which callers are inside an entry point

vars == <<imx585, ctrls, pm, regs, try_format, streaming, log, call, sync>>

----------------------------------------------------------------------------
(* Register addresses and values, #defines of imx585.c (decimal).          *)

IMX585_STANDBY == 12288
IMX585_REGHOLD == 12289
IMX585_XMSTA == 12290
IMX585_INCK_SEL == 12308
IMX585_INCK_SEL_74_25 == 0
IMX585_INCK_SEL_37_125 == 1
IMX585_INCK_SEL_72 == 2
IMX585_INCK_SEL_27 == 3
IMX585_INCK_SEL_24 == 4
IMX585_LANE_RATE == 12309
IMX585_LANE_RATE_1188 == 4
IMX585_LANE_RATE_594 == 7
IMX585_FLIP_WINMODEH == 12320
IMX585_FLIP_WINMODEV == 12321
IMX585_ADBIT == 12322
IMX585_MDBIT == 12323
IMX585_VMAX == 12328
IMX585_VMAX_MAX == 1048575
IMX585_HMAX == 12332
IMX585_HMAX_MAX == 65535
IMX585_FR_FDG_SEL0 == 12336
IMX585_FDG_SEL0_LCG == 0
IMX585_FDG_SEL0_HCG == 1
IMX585_FR_FDG_SEL1 == 12337
IMX585_FR_FDG_SEL2 == 12338
IMX585_CSI_LANE_MODE == 12352
IMX585_EXPOSURE == 12368
IMX585_GAIN == 12396

IMX585_EXPOSURE_MIN == 8
IMX585_EXPOSURE_STEP == 2
IMX585_EXPOSURE_OFFSET == 4

IMX585_NATIVE_WIDTH == 3876
IMX585_NATIVE_HEIGHT == 2204
IMX585_PIXEL_ARRAY_LEFT == 0
IMX585_PIXEL_ARRAY_TOP == 20
IMX585_PIXEL_ARRAY_WIDTH == 3856
IMX585_PIXEL_ARRAY_HEIGHT == 2180

IMX585_NUM_FORMATS == 2

(* Error numbers returned by the driver (negated errno values).            *)
EIO == 5
EBUSY == 16
ENODEV == 19
EINVAL == 22
ERANGE == 34

----------------------------------------------------------------------------
(* Bounds of the model.                                                    *)

\* How many leading entries of imx585_global_settings (294 in the source)
\* the replayed global program holds.
NumGlobal == 3


----------------------------------------------------------------------------
(* Catalogs.                                                               *)

imx585_colour_formats ==
    << [code |-> "SRGGB10_1X10", bpp |-> 10],
       [code |-> "SRGGB12_1X12", bpp |-> 12] >>

imx585_mono_formats ==
    << [code |-> "Y10_1X10", bpp |-> 10],
       [code |-> "Y12_1X12", bpp |-> 12] >>

\* The first entries of the global register program, in table order.
imx585_global_settings_table ==
    << <<12290, 0>>, <<12314, 0>>, <<12315, 0>>, <<12316, 0>>,
       <<12318, 1>>, <<12324, 0>>, <<12348, 0>>, <<12349, 0>> >>

imx585_global_settings == SubSeq(imx585_global_settings_table, 1, NumGlobal)

imx585_1080p_common_settings ==
    << <<12312, 16>>, <<IMX585_FR_FDG_SEL1, 0>>, <<IMX585_FR_FDG_SEL2, 0>> >>

imx585_modes ==
    << [width |-> 3856, height |-> 2180, hmax |-> 3944 * 2, vmax |-> 2250,
        crop |-> [left |-> IMX585_PIXEL_ARRAY_LEFT, top |-> IMX585_PIXEL_ARRAY_TOP,
                  width |-> IMX585_NATIVE_WIDTH, height |-> IMX585_NATIVE_HEIGHT],
        mode_data |-> imx585_1080p_common_settings,
        mode_data_size |-> Len(imx585_1080p_common_settings)] >>

IMX585_NUM_MODES == Len(imx585_modes)

----------------------------------------------------------------------------
(* The machine state an entry point runs on: the driver and framework      *)
(* state, the sensor registers, the events logged so far, the fault plan   *)
(* of this call and the return value of the last function that ran.        *)

\* A fault plan: no failure (first = 0), one transient failure of write
\* number `first`, or a bus that fails from write `first` on (sticky).
\* PlansUpTo(n) are the plans that differ on a call that issues n writes
\* when nothing fails: a call runs as without faults up to its first
\* failing write, so a later first failure changes nothing.
NoFault == [first |-> 0, sticky |-> FALSE]

PlansUpTo(n) == {NoFault} \cup [first : 1..n, sticky : BOOLEAN]

Fails(plan, n) ==
    /\ plan.first > 0
    /\ \/ n = plan.first
       \/ plan.sticky /\ n > plan.first

Ev(t, a, v, ok) == [t |-> t, a |-> a, v |-> v, ok |-> ok]

Machine(plan) ==
    [dev |-> imx585, ctrls |-> ctrls, pm |-> pm, regs |-> regs,
     try_format |-> try_format, log |-> <<>>, nw |-> 0, plan |-> plan, ret |-> 0,
     out |-> <<>>]

Emit(m, e) == [m EXCEPT !.log = Append(@, e)]

Ret(m, r) == [m EXCEPT !.ret = r]

\* The event that a function returned m.ret.
EmitRet(m, t, a) == Emit(m, Ev(t, a, m.ret, m.ret = 0))

\* The element of a one-element set: The({e : x \in {v}}) is e with x
\* standing for the value v.
The(S) == CHOOSE x \in S : TRUE

\* regmap_write() on the register bus: it fails when the fault plan says so;
\* a write that succeeds reaches the sensor register.
imx585_write_reg(m, addr, value) ==
    LET n  == m.nw + 1
        ok == ~Fails(m.plan, n)
    IN  [m EXCEPT !.nw = n,
                  !.log = Append(@, Ev("w", addr, value, ok)),
                  !.regs = IF ok /\ addr \in DOMAIN @
                           THEN [@ EXCEPT ![addr] = value] ELSE @,
                  !.ret = IF ok THEN 0 ELSE -EIO]

\* usleep_range() / msleep(): a blocking wait of at least `ms` milliseconds.
Sleep(m, ms) == Emit(m, Ev("sleep", 0, ms, TRUE))

\* A replay that goes on with the next entry after a failed write and
\* reports the failure at the end: not what the driver does.
RECURSIVE set_register_array_loop_goes_on(_, _, _, _)
set_register_array_loop_goes_on(m, settings, num_settings, i) ==
    IF i >= num_settings
    THEN IF SelectSeq(m.log, LAMBDA e : e.t = "w" /\ ~e.ok) # <<>>
         THEN Ret(m, -EIO) ELSE Ret(Sleep(m, 10), 0)
    ELSE set_register_array_loop_goes_on(
             imx585_write_reg(m, settings[i + 1][1], settings[i + 1][2]),
             settings, num_settings, i + 1)

RECURSIVE set_register_array_loop(_, _, _, _)
set_register_array_loop(m, settings, num_settings, i) ==
    IF i >= num_settings
    THEN Ret(Sleep(m, 10), 0)
    ELSE The({ IF m1.ret < 0 THEN m1
               ELSE set_register_array_loop(m1, settings, num_settings, i + 1) :
               m1 \in {imx585_write_reg(m, settings[i + 1][1], settings[i + 1][2])} })

\* The "arr" / "arr_ret" events bracket one replay in the log.
imx585_set_register_array(m, settings, num_settings) ==
    EmitRet(set_register_array_loop(Emit(m, Ev("arr", settings, num_settings, TRUE)),
                                    settings, num_settings, 0),
            "arr_ret", settings)

\* (u8)(value >> (i * 8)), also of a wrapped (negative) value
ByteOf(value, i) == (value \div (256 ^ i)) % 256

\* A byte loop that sends the most significant byte first: not what the
\* driver does.
RECURSIVE write_buffered_reg_loop_msb_first(_, _, _, _, _)
write_buffered_reg_loop_msb_first(m, address_low, nr_regs, value, i) ==
    IF i >= nr_regs
    THEN imx585_write_reg(m, IMX585_REGHOLD, 0)
    ELSE The({ IF m1.ret # 0 THEN m1
               ELSE write_buffered_reg_loop_msb_first(m1, address_low, nr_regs, value,
                                                      i + 1) :
               m1 \in {imx585_write_reg(m, address_low + i,
                                        ByteOf(value, nr_regs - 1 - i))} })

RECURSIVE write_buffered_reg_loop(_, _, _, _, _)
write_buffered_reg_loop(m, address_low, nr_regs, value, i) ==
    IF i >= nr_regs
    THEN imx585_write_reg(m, IMX585_REGHOLD, 0)
    ELSE The({ IF m1.ret # 0 THEN m1
               ELSE write_buffered_reg_loop(m1, address_low, nr_regs, value, i + 1) :
               m1 \in {imx585_write_reg(m, address_low + i, ByteOf(value, i))} })

write_buffered_reg_body(m, address_low, nr_regs, value) ==
    The({ IF m1.ret # 0 THEN m1
          ELSE write_buffered_reg_loop(m1, address_low, nr_regs, value, 0) :
          m1 \in {imx585_write_reg(m, IMX585_REGHOLD, 1)} })

\* The "buf" / "buf_ret" events bracket one buffered write in the log.
imx585_write_buffered_reg(m, address_low, nr_regs, value) ==
    EmitRet(write_buffered_reg_body(
                Emit(m, Ev("buf", address_low, <<nr_regs, value>>, TRUE)),
                address_low, nr_regs, value),
            "buf_ret", address_low)

----------------------------------------------------------------------------
(* Runtime PM of the device, with the power hooks of the driver.           *)

\* imx585_power_on(): clock, regulators, reset released, 30 ms wait.
\* `power_ok` is whether the clock and the regulators could be enabled.
imx585_power_on(m, power_ok) ==
    IF power_ok
    THEN Ret(Sleep([m EXCEPT !.pm.active = TRUE], 30), 0)
    ELSE Ret(m, -ENODEV)

\* imx585_power_off(): clock off, reset asserted, regulators off.  The
\* sensor loses its register contents (RegsAtReset).
RegReset == -1

RegsAtReset ==
    [a \in {IMX585_STANDBY, IMX585_REGHOLD, IMX585_XMSTA, IMX585_ADBIT, IMX585_MDBIT}
        |-> RegReset]

imx585_power_off(m) == Ret([m EXCEPT !.pm.active = FALSE, !.regs = RegsAtReset], 0)

\* pm_runtime_resume_and_get(): takes a reference and resumes the device;
\* on failure the reference is dropped again.
pm_runtime_resume_and_get(m, power_ok) ==
    The({ EmitRet(IF m2.ret < 0 THEN [m2 EXCEPT !.pm.usage_count = @ - 1] ELSE m2,
                  "pm_resume_and_get", 0) :
          m2 \in {IF m.pm.active
                  THEN Ret([m EXCEPT !.pm.usage_count = @ + 1], 0)
                  ELSE imx585_power_on([m EXCEPT !.pm.usage_count = @ + 1], power_ok)} })

\* pm_runtime_get_if_in_use(): takes a reference only when the device is
\* active and already in use.
InUse(m) == m.pm.active /\ m.pm.usage_count > 0

pm_runtime_get_if_in_use(m) ==
    IF InUse(m)
    THEN Emit([m EXCEPT !.pm.usage_count = @ + 1], Ev("pm_get_if_in_use", 0, 1, TRUE))
    ELSE Emit(m, Ev("pm_get_if_in_use", 0, 0, FALSE))

\* pm_runtime_put(): drops a reference; the device is suspended
\* (imx585_power_off) when the last one goes.
pm_runtime_put(m) ==
    The({ IF m1.pm.usage_count = 0 THEN imx585_power_off(m1) ELSE m1 :
          m1 \in {Emit([m EXCEPT !.pm.usage_count = @ - 1], Ev("pm_put", 0, 0, TRUE))} })

----------------------------------------------------------------------------
(* The v4l2 control framework, as far as the driver drives it: ranges,     *)
(* the new value (val) and the current value (cur) of each control.        *)

Ctrl(type, min, max, step, def, ro) ==
    [type |-> type, minimum |-> min, maximum |-> max, step |-> step,
     default_value |-> def, cur |-> def, val |-> def,
     grabbed |-> FALSE, read_only |-> ro]

Clamp(v, lo, hi) == IF v < lo THEN lo ELSE IF v > hi THEN hi ELSE v

\* ROUND_TO_RANGE() of an integer control: round to the step, clamp.
round_to_range(c, v) ==
    LET half == c.step \div 2
        v1   == IF c.maximum >= 0 /\ v >= c.maximum - half
                THEN c.maximum ELSE v + half
        v2   == Clamp(v1, c.minimum, c.maximum)
    IN  c.minimum + c.step * ((v2 - c.minimum) \div c.step)

\* std_validate(): integers are rounded into the range, booleans normalised.
std_validate(c, v) ==
    IF c.type = "boolean" THEN (IF v # 0 THEN 1 ELSE 0) ELSE round_to_range(c, v)

cur_to_new(m, id) == [m EXCEPT !.ctrls[id].val = m.ctrls[id].cur]

new_to_cur(m, id) == [m EXCEPT !.ctrls[id].cur = m.ctrls[id].val]

RECURSIVE imx585_set_ctrl(_, _)

\* try_or_set_cluster(set = true): a grabbed control is busy and a new
\* value equal to the current one is not set (cluster_changed()); otherwise
\* the driver's s_ctrl runs and, when it succeeds, the new value becomes
\* current.
try_or_set_cluster(m, id) ==
    IF m.ctrls[id].grabbed THEN Ret(m, -EBUSY)
    ELSE IF m.ctrls[id].val = m.ctrls[id].cur THEN Ret(m, 0)
    ELSE The({ IF m1.ret # 0 THEN m1 ELSE Ret(new_to_cur(m1, id), 0) :
               m1 \in {imx585_set_ctrl(m, id)} })

\* validate_new(): the new value is brought into the range of the control.
validate_new(m, id) == [m EXCEPT !.ctrls[id].val = std_validate(m.ctrls[id], @)]

\* set_ctrl(): validate the new value, then set it.
v4l2_set_ctrl(m, id) == try_or_set_cluster(validate_new(m, id), id)

\* __v4l2_ctrl_s_ctrl() / __v4l2_ctrl_s_ctrl_int64()
v4l2_ctrl_s_ctrl(m, id, v) == v4l2_set_ctrl([m EXCEPT !.ctrls[id].val = v], id)

\* __v4l2_ctrl_modify_range(): new range and default; the current value is
\* brought into the new range and, when that changes it, set.
v4l2_ctrl_modify_range(m, id, min, max, step, def) ==
    IF step = 0 \/ min > max \/ def < min \/ def > max
    THEN Ret(m, -ERANGE)
    ELSE The({ IF m3.ctrls[id].val # m3.ctrls[id].cur
               THEN v4l2_set_ctrl(m3, id)
               ELSE Ret(m3, 0) :
               m3 \in {validate_new(
                           cur_to_new(
                               Emit([m EXCEPT !.ctrls[id].minimum = min,
                                              !.ctrls[id].maximum = max,
                                              !.ctrls[id].step = step,
                                              !.ctrls[id].default_value = def],
                                    Ev("range", id, <<min, max, step, def>>, TRUE)),
                               id),
                           id)} })

\* __v4l2_ctrl_grab()
v4l2_ctrl_grab(m, id, grabbed) == [m EXCEPT !.ctrls[id].grabbed = grabbed]

----------------------------------------------------------------------------
(* The control setters.                                                    *)

Mode(m) == imx585_modes[m.dev.current_mode]

\* A gain setter that writes the conversion-gain select whatever the gain
\* write returned: not what the driver does.
set_gain_always_selects(m, value) ==
    The({ IF m1.ret # 0
          THEN Ret(imx585_write_reg(m1, IMX585_FR_FDG_SEL0,
                                    IF value < 34 THEN IMX585_FDG_SEL0_HCG
                                                  ELSE IMX585_FDG_SEL0_LCG), m1.ret)
          ELSE imx585_write_reg(m1, IMX585_FR_FDG_SEL0,
                                IF value < 34 THEN IMX585_FDG_SEL0_HCG
                                              ELSE IMX585_FDG_SEL0_LCG) :
          m1 \in {imx585_write_buffered_reg(m, IMX585_GAIN, 2, value)} })

imx585_set_gain(m, value) ==
    The({ IF m1.ret # 0 THEN m1
          ELSE imx585_write_reg(m1, IMX585_FR_FDG_SEL0,
                                IF value < 34 THEN IMX585_FDG_SEL0_HCG
                                              ELSE IMX585_FDG_SEL0_LCG) :
          m1 \in {imx585_write_buffered_reg(m, IMX585_GAIN, 2, value)} })

\* The u32 `exposure` is kept as the integer the subtraction yields: a
\* negative one stands for the wrapped value 2^32 + exposure, whose low
\* bytes ByteOf() gives.
imx585_set_exposure(m, value) ==
    LET exposure == (Mode(m).height + m.ctrls["vblank"].val) - value - 1
    IN  imx585_write_buffered_reg(m, IMX585_EXPOSURE, 3, exposure)

\* A horizontal total that is halved rounding up: not what the driver
\* writes.
set_hmax_rounds_up(m, val) ==
    LET hmax == (val + Mode(m).width + 1) \div 2
    IN  imx585_write_buffered_reg(m, IMX585_HMAX, 2, hmax)

imx585_set_hmax(m, val) ==
    LET hmax == (val + Mode(m).width) \div 2
    IN  imx585_write_buffered_reg(m, IMX585_HMAX, 2, hmax)

\* The VMAX write, then the exposure range for the new vertical total and
\* the exposure register written again.  The results of the range update
\* and of the exposure write are dropped: the function returns what the
\* VMAX write returned, and goes on after a failed VMAX write.
\* A vertical-blanking setter that re-writes the exposure before it
\* updates the exposure range: not what the driver does.
set_vmax_rewrites_first(m, val) ==
    The({ The({ Ret(v4l2_ctrl_modify_range(m2, "exposure",
                                           IMX585_EXPOSURE_MIN,
                                           vmax - IMX585_EXPOSURE_OFFSET,
                                           IMX585_EXPOSURE_STEP,
                                           vmax - IMX585_EXPOSURE_OFFSET), m1.ret) :
                m2 \in {imx585_set_exposure(m1, m1.ctrls["exposure"].val)} }) :
          vmax \in {val + Mode(m).height},
          m1 \in {imx585_write_buffered_reg(m, IMX585_VMAX, 3, val + Mode(m).height)} })

imx585_set_vmax(m, val) ==
    The({ The({ Ret(imx585_set_exposure(m2, m2.ctrls["exposure"].val), m1.ret) :
                m2 \in {v4l2_ctrl_modify_range(m1, "exposure",
                                               IMX585_EXPOSURE_MIN,
                                               vmax - IMX585_EXPOSURE_OFFSET,
                                               IMX585_EXPOSURE_STEP,
                                               vmax - IMX585_EXPOSURE_OFFSET)} }) :
          vmax \in {val + Mode(m).height},
          m1 \in {imx585_write_buffered_reg(m, IMX585_VMAX, 3, val + Mode(m).height)} })

\* The s_ctrl callback of every control of the handler.
imx585_set_ctrl(m, id) ==
    The({ IF ~InUse(m) THEN Ret(m0, 0)
          ELSE The({ Ret(pm_runtime_put(m1), m1.ret) :
                     m1 \in {CASE id = "gain"     -> imx585_set_gain(m0, v)
                               [] id = "exposure" -> imx585_set_exposure(m0, v)
                               [] id = "hblank"   -> imx585_set_hmax(m0, v)
                               [] id = "vblank"   -> imx585_set_vmax(m0, v)
                               [] id = "hflip"    ->
                                      imx585_write_reg(m0, IMX585_FLIP_WINMODEH, v)
                               [] id = "vflip"    ->
                                      imx585_write_reg(m0, IMX585_FLIP_WINMODEV, v)
                               [] OTHER           -> Ret(m0, -EINVAL)} }) :
          v \in {m.ctrls[id].val},
          m0 \in {pm_runtime_get_if_in_use(
                      Emit(m, Ev("s_ctrl", id, m.ctrls[id].val, TRUE)))} })

\* The controls with the exposure ahead of the blanking controls: not the
\* order in which imx585_probe() adds them.
CtrlOrder_exposure_first ==
    << "gain", "exposure", "hblank", "vblank", "hflip", "vflip",
       "link_freq", "pixel_rate" >>

\* The controls in the order imx585_probe() adds them to the handler.
CtrlOrder ==
    << "gain", "hblank", "vblank", "exposure", "hflip", "vflip",
       "link_freq", "pixel_rate" >>

\* v4l2_ctrl_handler_setup(): every control that is not read-only, in the
\* order of the handler's list, gets its current value set through s_ctrl;
\* the first error ends the walk.
RECURSIVE handler_setup_loop(_, _)
handler_setup_loop(m, i) ==
    IF i > Len(CtrlOrder) THEN Ret(m, 0)
    ELSE IF m.ctrls[CtrlOrder[i]].read_only THEN handler_setup_loop(m, i + 1)
    ELSE The({ IF m1.ret # 0 THEN m1 ELSE handler_setup_loop(m1, i + 1) :
               m1 \in {imx585_set_ctrl(cur_to_new(m, CtrlOrder[i]), CtrlOrder[i])} })

v4l2_ctrl_handler_setup(m) == handler_setup_loop(m, 1)

----------------------------------------------------------------------------
(* Streaming.                                                              *)

\* A stop sequence that writes XMSTA whatever the STANDBY write returned:
\* not what the driver does.
stop_streaming_unconditional(m) ==
    The({ IF m1.ret < 0
          THEN Ret(imx585_write_reg(Sleep(m1, 30), IMX585_XMSTA, 1), m1.ret)
          ELSE imx585_write_reg(Sleep(m1, 30), IMX585_XMSTA, 1) :
          m1 \in {imx585_write_reg(m, IMX585_STANDBY, 1)} })

imx585_stop_streaming(m) ==
    The({ IF m1.ret < 0 THEN m1
          ELSE imx585_write_reg(Sleep(m1, 30), IMX585_XMSTA, 1) :
          m1 \in {imx585_write_reg(m, IMX585_STANDBY, 1)} })

\* A bit-depth step that writes MDBIT with the 10-bit code whatever the
\* format: not what the driver does.
write_current_format_mdbit_10(m) ==
    LET code == m.dev.current_format.code
        known == code \in {"SRGGB10_1X10", "Y10_1X10", "SRGGB12_1X12", "Y12_1X12"}
        ad_md_bit == IF code \in {"SRGGB10_1X10", "Y10_1X10"} THEN 0 ELSE 1
    IN  IF ~known THEN Ret(m, -EINVAL)
        ELSE The({ IF m1.ret < 0 THEN m1
                   ELSE imx585_write_reg(m1, IMX585_MDBIT, 0) :
                   m1 \in {imx585_write_reg(m, IMX585_ADBIT, ad_md_bit)} })

imx585_write_current_format(m) ==
    LET code == m.dev.current_format.code
        known == code \in {"SRGGB10_1X10", "Y10_1X10", "SRGGB12_1X12", "Y12_1X12"}
        ad_md_bit == IF code \in {"SRGGB10_1X10", "Y10_1X10"} THEN 0 ELSE 1
    IN  IF ~known THEN Ret(m, -EINVAL)
        ELSE The({ IF m1.ret < 0 THEN m1
                   ELSE imx585_write_reg(m1, IMX585_MDBIT, ad_md_bit) :
                   m1 \in {imx585_write_reg(m, IMX585_ADBIT, ad_md_bit)} })

\* A "step" event marks where each step of the start sequence begins.
Step(m, name) == Emit(m, Ev("step", name, 0, TRUE))

\* An end of the start sequence that starts the master before it leaves
\* standby: not what the driver does.
start_from_standby_master_first(m) ==
    The({ IF m1.ret < 0 THEN m1
          ELSE imx585_write_reg(Step(Sleep(m1, 30), "standby_clear"), IMX585_STANDBY, 0) :
          m1 \in {imx585_write_reg(Step(m, "master_start"), IMX585_XMSTA, 0)} })

start_from_standby(m) ==
    The({ IF m1.ret < 0 THEN m1
          ELSE imx585_write_reg(Step(Sleep(m1, 30), "master_start"), IMX585_XMSTA, 0) :
          m1 \in {imx585_write_reg(Step(m, "standby_clear"), IMX585_STANDBY, 0)} })

start_from_replay(m) ==
    The({ IF m1.ret # 0 THEN m1 ELSE start_from_standby(m1) :
          m1 \in {v4l2_ctrl_handler_setup(Step(m, "control_replay"))} })

start_from_lane_rate(m) ==
    The({ IF m1.ret < 0 THEN m1 ELSE start_from_replay(m1) :
          m1 \in {imx585_write_reg(Step(m, "lane_rate"), IMX585_LANE_RATE,
                                   IF m.dev.nlanes = 2 THEN IMX585_LANE_RATE_1188
                                                       ELSE IMX585_LANE_RATE_594)} })

start_from_lanes(m) ==
    The({ IF m1.ret < 0 THEN m1 ELSE start_from_lane_rate(m1) :
          m1 \in {imx585_write_reg(Step(m, "lane_count"), IMX585_CSI_LANE_MODE,
                                   IF m.dev.nlanes = 2 THEN 1 ELSE 3)} })

start_from_mode(m) ==
    The({ IF m1.ret < 0 THEN m1 ELSE start_from_lanes(m1) :
          m1 \in {imx585_set_register_array(Step(m, "mode"), Mode(m).mode_data,
                                            Mode(m).mode_data_size)} })

start_from_format(m) ==
    The({ IF m1.ret < 0 THEN m1 ELSE start_from_mode(m1) :
          m1 \in {imx585_write_current_format(Step(m, "bit_depth"))} })

start_from_clock(m) ==
    The({ IF m1.ret < 0 THEN m1 ELSE start_from_format(m1) :
          m1 \in {imx585_write_reg(Step(m, "clock_select"), IMX585_INCK_SEL,
                                   m.dev.inck_sel)} })

start_from_global(m) ==
    The({ IF m1.ret < 0 THEN m1 ELSE start_from_clock(m1) :
          m1 \in {imx585_set_register_array(Step(m, "global"), imx585_global_settings,
                                            Len(imx585_global_settings))} })

\* The "start_ret" event marks the return of the start sequence in the log.
imx585_start_streaming(m) == EmitRet(start_from_global(m), "start_ret", 0)

\* A grab of the vertical flip alone: not what the driver does.
grab_vflip_only(m, enable) == v4l2_ctrl_grab(m, "vflip", enable)

\* __v4l2_ctrl_grab() of both flips.
grab_flips(m, enable) ==
    v4l2_ctrl_grab(v4l2_ctrl_grab(m, "vflip", enable), "hflip", enable)

\* Three variants of imx585_set_stream() that the driver is not: one that
\* keeps the power reference when the start sequence fails, one that does
\* not look at the result of the power resume, and one that hands the
\* result of the stop sequence to its caller.
set_stream_keeps_power(m, enable, power_ok) ==
    IF enable
    THEN The({ IF m1.ret < 0 THEN m1
               ELSE The({ IF m2.ret # 0 THEN m2 ELSE grab_flips(m2, TRUE) :
                          m2 \in {imx585_start_streaming(m1)} }) :
               m1 \in {pm_runtime_resume_and_get(m, power_ok)} })
    ELSE Ret(grab_flips(pm_runtime_put(imx585_stop_streaming(m)), FALSE), 0)

set_stream_unchecked_resume(m, enable, power_ok) ==
    IF enable
    THEN The({ IF m2.ret # 0 THEN Ret(pm_runtime_put(m2), m2.ret)
               ELSE grab_flips(m2, TRUE) :
               m2 \in {imx585_start_streaming(pm_runtime_resume_and_get(m, power_ok))} })
    ELSE Ret(grab_flips(pm_runtime_put(imx585_stop_streaming(m)), FALSE), 0)

set_stream_returns_stop(m, enable, power_ok) ==
    IF enable
    THEN The({ IF m1.ret < 0 THEN m1
               ELSE The({ IF m2.ret # 0 THEN Ret(pm_runtime_put(m2), m2.ret)
                          ELSE grab_flips(m2, TRUE) :
                          m2 \in {imx585_start_streaming(m1)} }) :
               m1 \in {pm_runtime_resume_and_get(m, power_ok)} })
    ELSE The({ Ret(grab_flips(pm_runtime_put(m0), FALSE), m0.ret) :
               m0 \in {imx585_stop_streaming(m)} })

\* A stream switch whose disable drops the power reference twice: not
\* what the driver does.
set_stream_puts_twice(m, enable, power_ok) ==
    IF enable
    THEN The({ IF m1.ret < 0 THEN m1
               ELSE The({ IF m2.ret # 0 THEN Ret(pm_runtime_put(m2), m2.ret)
                          ELSE grab_flips(m2, TRUE) :
                          m2 \in {imx585_start_streaming(m1)} }) :
               m1 \in {pm_runtime_resume_and_get(m, power_ok)} })
    ELSE Ret(grab_flips(pm_runtime_put(pm_runtime_put(imx585_stop_streaming(m))),
                        FALSE), 0)

imx585_set_stream(m, enable, power_ok) ==
    IF enable
    THEN The({ IF m1.ret < 0 THEN m1
               ELSE The({ IF m2.ret # 0 THEN Ret(pm_runtime_put(m2), m2.ret)
                          ELSE grab_flips(m2, TRUE) :
                          m2 \in {imx585_start_streaming(m1)} }) :
               m1 \in {pm_runtime_resume_and_get(m, power_ok)} })
    ELSE Ret(grab_flips(pm_runtime_put(imx585_stop_streaming(m)), FALSE), 0)

----------------------------------------------------------------------------
(* Format negotiation.                                                     *)

Abs(x) == IF x < 0 THEN -x ELSE x

\* v4l2_find_nearest_size(): the entry with the least |dw| + |dh|; the
\* walk stops at an exact match and otherwise keeps the last of the best.
RECURSIVE find_nearest_loop(_, _, _, _, _, _)
find_nearest_loop(modes, width, height, i, best, min_error) ==
    IF i > Len(modes) THEN best
    ELSE LET error == Abs(modes[i].width - width) + Abs(modes[i].height - height)
         IN  IF min_error >= 0 /\ error > min_error
             THEN find_nearest_loop(modes, width, height, i + 1, best, min_error)
             ELSE IF error = 0 THEN i
                  ELSE find_nearest_loop(modes, width, height, i + 1, i, error)

v4l2_find_nearest_size(modes, width, height) ==
    find_nearest_loop(modes, width, height, 1, 0, -1)

imx585_calc_pixel_rate == 148500000

\* A code search that falls back to the last entry of the catalog: not
\* what the driver does.
FormatIndex_last_on_miss(formats, code) ==
    LET hits == {i \in 1..IMX585_NUM_FORMATS : formats[i].code = code}
    IN  IF hits = {} THEN IMX585_NUM_FORMATS
        ELSE CHOOSE i \in hits : \A j \in hits : i <= j

\* for (i = 0; i < IMX585_NUM_FORMATS; i++) if (formats[i].code == code) break;
\* if (i >= IMX585_NUM_FORMATS) i = 0;   (1-based here)
FormatIndex(formats, code) ==
    LET hits == {i \in 1..IMX585_NUM_FORMATS : formats[i].code = code}
    IN  IF hits = {} THEN 1 ELSE CHOOSE i \in hits : \A j \in hits : i <= j

\* The control updates of an active-scope negotiation, each made only
\* when the control exists (the first call of imx585_probe() comes before
\* the controls are created).
set_fmt_pixel_rate(m) ==
    IF "pixel_rate" \in DOMAIN m.ctrls
    THEN v4l2_ctrl_s_ctrl(m, "pixel_rate", imx585_calc_pixel_rate)
    ELSE m

set_fmt_hblank(m, mode) ==
    IF "hblank" \in DOMAIN m.ctrls
    THEN v4l2_ctrl_s_ctrl(
             v4l2_ctrl_modify_range(m, "hblank",
                                    mode.hmax - mode.width,
                                    IMX585_HMAX_MAX - mode.width, 1,
                                    mode.hmax - mode.width),
             "hblank", mode.hmax - mode.width)
    ELSE m

set_fmt_vblank(m, mode) ==
    IF "vblank" \in DOMAIN m.ctrls
    THEN v4l2_ctrl_s_ctrl(
             v4l2_ctrl_modify_range(m, "vblank",
                                    mode.vmax - mode.height,
                                    IMX585_VMAX_MAX - mode.height, 1,
                                    mode.vmax - mode.height),
             "vblank", mode.vmax - mode.height)
    ELSE m

set_fmt_exposure(m, mode) ==
    IF "exposure" \in DOMAIN m.ctrls
    THEN v4l2_ctrl_modify_range(m, "exposure", IMX585_EXPOSURE_MIN,
                                mode.vmax - 2, IMX585_EXPOSURE_STEP,
                                mode.vmax - 2)
    ELSE m

set_fmt_active(m, mi, i, format) ==
    [set_fmt_exposure(
         set_fmt_vblank(
             set_fmt_hblank(
                 set_fmt_pixel_rate([m EXCEPT !.dev.current_mode = mi,
                                              !.dev.bpp = m.dev.formats[i].bpp]),
                 imx585_modes[mi]),
             imx585_modes[mi]),
         imx585_modes[mi])
     EXCEPT !.dev.current_format = format]

\* A negotiation that treats the try scope like the active scope: not what
\* the driver does.
set_fmt_apply_any_scope(m, which, mi, i, format) ==
    [set_fmt_active([m EXCEPT !.try_format = IF which = "TRY" THEN format ELSE @],
                    mi, i, format)
     EXCEPT !.ret = 0, !.out = format]

set_fmt_apply(m, which, mi, i, format) ==
    [(IF which = "TRY"
      THEN [m EXCEPT !.try_format = format]
      ELSE set_fmt_active(m, mi, i, format))
     EXCEPT !.ret = 0, !.out = format]

\* A negotiation that stores the pixel code as requested: not what the
\* driver does.
set_fmt_keeps_requested_code(m, which, width, height, code) ==
    The({ set_fmt_apply(m, which, mi, i,
                        [width |-> imx585_modes[mi].width,
                         height |-> imx585_modes[mi].height,
                         code |-> code]) :
          mi \in {v4l2_find_nearest_size(imx585_modes, width, height)},
          i \in {FormatIndex(m.dev.formats, code)} })

imx585_set_fmt(m, which, width, height, code) ==
    The({ set_fmt_apply(m, which, mi, i,
                        [width |-> imx585_modes[mi].width,
                         height |-> imx585_modes[mi].height,
                         code |-> m.dev.formats[i].code]) :
          mi \in {v4l2_find_nearest_size(imx585_modes, width, height)},
          i \in {FormatIndex(m.dev.formats, code)} })

\* imx585_entity_init_cfg(): which is TRY when a subdev state is given.
imx585_entity_init_cfg(m, which) == imx585_set_fmt(m, which, 1936, 1100, "0")

\* imx585_get_fmt(): the try format of the subdev state or the current
\* format of the driver.
imx585_get_fmt(m, which) ==
    [m EXCEPT !.ret = 0,
              !.out = IF which = "TRY" THEN m.try_format ELSE m.dev.current_format]

\* __imx585_get_pad_crop(): the crop of the current mode; in the try scope
\* the try crop of the subdev state, which the driver never sets.
imx585_get_pad_crop(m, which) ==
    IF which = "ACTIVE" THEN Mode(m).crop
    ELSE [left |-> 0, top |-> 0, width |-> 0, height |-> 0]

imx585_get_selection(m, target, which) ==
    CASE target = "CROP" ->
             [m EXCEPT !.ret = 0, !.out = imx585_get_pad_crop(m, which)]
      [] target = "NATIVE_SIZE" ->
             [m EXCEPT !.ret = 0,
                       !.out = [left |-> 0, top |-> 0,
                                width |-> IMX585_NATIVE_WIDTH,
                                height |-> IMX585_NATIVE_HEIGHT]]
      [] target \in {"CROP_DEFAULT", "CROP_BOUNDS"} ->
             [m EXCEPT !.ret = 0,
                       !.out = [left |-> IMX585_PIXEL_ARRAY_LEFT,
                                top |-> IMX585_PIXEL_ARRAY_TOP,
                                width |-> IMX585_PIXEL_ARRAY_WIDTH,
                                height |-> IMX585_PIXEL_ARRAY_HEIGHT]]
      [] OTHER -> Ret(m, -EINVAL)

----------------------------------------------------------------------------
(* Attach.                                                                 *)

imx585_link_freq_2lanes == <<594000000>>
imx585_link_freq_4lanes == <<297000000>>

imx585_link_freqs_ptr(nlanes) ==
    IF nlanes = 2 THEN imx585_link_freq_2lanes ELSE imx585_link_freq_4lanes

imx585_link_freqs_num(nlanes) == Len(imx585_link_freqs_ptr(nlanes))

\* A link-frequency check that accepts every declaration: not what the
\* driver does.
check_link_freqs_accepts_all(nlanes, link_frequencies) == 0

\* 0 when every link frequency of the lane count is declared, else the
\* first one that is missing.
imx585_check_link_freqs(nlanes, link_frequencies) ==
    LET freqs   == imx585_link_freqs_ptr(nlanes)
        missing == {i \in 1..Len(freqs) : freqs[i] \notin link_frequencies}
    IN  IF missing = {} THEN 0
        ELSE freqs[CHOOSE i \in missing : \A j \in missing : i <= j]

\* A clock switch with the codes of 72 MHz and 27 MHz exchanged: not what
\* the driver does.
InckSel_exchanged(xclk_freq) ==
    CASE xclk_freq = 74250000 -> IMX585_INCK_SEL_74_25
      [] xclk_freq = 37125000 -> IMX585_INCK_SEL_37_125
      [] xclk_freq = 72000000 -> IMX585_INCK_SEL_27
      [] xclk_freq = 27000000 -> IMX585_INCK_SEL_72
      [] xclk_freq = 24000000 -> IMX585_INCK_SEL_24
      [] OTHER -> -1

\* switch (xclk_freq): the INCK_SEL code, or -1 for an unsupported clock.
InckSel(xclk_freq) ==
    CASE xclk_freq = 74250000 -> IMX585_INCK_SEL_74_25
      [] xclk_freq = 37125000 -> IMX585_INCK_SEL_37_125
      [] xclk_freq = 72000000 -> IMX585_INCK_SEL_72
      [] xclk_freq = 27000000 -> IMX585_INCK_SEL_27
      [] xclk_freq = 24000000 -> IMX585_INCK_SEL_24
      [] OTHER -> -1

\* The controls imx585_probe() creates, for the mode current at that time.
ProbeCtrls(mode, nlanes) ==
    [id \in {CtrlOrder[i] : i \in 1..Len(CtrlOrder)} |->
        CASE id = "gain"       -> Ctrl("integer", 0, 100, 1, 0, FALSE)
          [] id = "hblank"     -> Ctrl("integer", mode.hmax - mode.width,
                                       IMX585_HMAX_MAX - mode.width, 1,
                                       mode.hmax - mode.width, FALSE)
          [] id = "vblank"     -> Ctrl("integer", mode.vmax - mode.height,
                                       IMX585_VMAX_MAX - mode.height, 1,
                                       mode.vmax - mode.height, FALSE)
          [] id = "exposure"   -> Ctrl("integer", IMX585_EXPOSURE_MIN, mode.vmax - 2,
                                       IMX585_EXPOSURE_STEP, mode.vmax - 2, FALSE)
          [] id = "hflip"      -> Ctrl("boolean", 0, 1, 1, 0, FALSE)
          [] id = "vflip"      -> Ctrl("boolean", 0, 1, 1, 0, FALSE)
          [] id = "link_freq"  -> Ctrl("menu", 0, imx585_link_freqs_num(nlanes) - 1,
                                       1, 0, TRUE)
          [] id = "pixel_rate" -> Ctrl("integer64", 1, 2147483647, 1,
                                       imx585_calc_pixel_rate, TRUE)]

\* The machine imx585_probe() starts from: nothing selected, no controls,
\* the device not powered by runtime PM.
ProbeStart(formats, nlanes, inck_sel) ==
    [dev |-> [nlanes |-> nlanes, inck_sel |-> inck_sel, formats |-> formats,
              current_mode |-> 0, bpp |-> 0,
              current_format |-> [width |-> 0, height |-> 0, code |-> "0"]],
     ctrls |-> <<>>, pm |-> [usage_count |-> 0, active |-> FALSE],
     regs |-> RegsAtReset,
     try_format |-> [width |-> 0, height |-> 0, code |-> "0"],
     log |-> <<>>, nw |-> 0, plan |-> [first |-> 0, sticky |-> FALSE], ret |-> 0,
     out |-> <<>>]

\* The machine with the controls created, for its current mode.
probe_ctrls(m, nlanes) == [m EXCEPT !.ctrls = ProbeCtrls(Mode(m), nlanes)]

\* imx585_probe() on a device-tree configuration: the machine it leaves,
\* with ret = 0, or ret < 0 when the configuration is rejected.
imx585_probe(cfg) ==
    LET formats == IF cfg.compatible = "sony,imx585-mono"
                   THEN imx585_mono_formats ELSE imx585_colour_formats
        nlanes  == cfg.num_data_lanes
        m0      == ProbeStart(formats, nlanes, InckSel(cfg.clock_frequency))
    IN  IF nlanes # 2 /\ nlanes # 4 THEN Ret(m0, -EINVAL)
        ELSE IF cfg.link_frequencies = {} THEN Ret(m0, -EINVAL)
        ELSE IF imx585_check_link_freqs(nlanes, cfg.link_frequencies) # 0
             THEN Ret(m0, -EINVAL)
        ELSE IF InckSel(cfg.clock_frequency) < 0 THEN Ret(m0, -EINVAL)
        ELSE [imx585_entity_init_cfg(
                  probe_ctrls(imx585_entity_init_cfg(m0, "ACTIVE"), nlanes), "ACTIVE")
              EXCEPT !.ret = 0, !.log = <<>>, !.out = <<>>]

\* The device-tree configurations the model attaches.
AttachConfigs ==
    { [compatible |-> "sony,imx585", num_data_lanes |-> 2,
       link_frequencies |-> {594000000}, clock_frequency |-> 24000000] }

----------------------------------------------------------------------------
(* The state machine: the state after a successful attach, and one action  *)
(* per entry point.                                                        *)

\* The entry points that can be called at the same time, each by a caller
\* of its own.
Callers == {"set_stream", "s_ctrl", "set_fmt", "get_fmt", "get_selection"}

\* After imx585_probe(): imx585->lock and the mutex of the control handler
\* are free (lock, hdl: the caller that holds it) and no caller is inside
\* an entry point.
SyncIdle == [lock |-> "none", hdl |-> "none", at |-> [c \in Callers |-> "out"]]

Init ==
    \E cfg \in AttachConfigs :
        \E m \in {imx585_probe(cfg)} :
            /\ m.ret = 0
            /\ imx585 = m.dev
            /\ ctrls = m.ctrls
            /\ pm = m.pm
            /\ regs = m.regs
            /\ try_format = imx585_entity_init_cfg(m, "TRY").try_format
            /\ streaming = FALSE
            /\ log = <<>>
            /\ call = [op |-> "none", args |-> <<>>, ret |-> 0, out |-> <<>>]
            /\ sync = SyncIdle

CommitAt(m, op, args, nowstreaming, nowsync) ==
    /\ imx585' = m.dev
    /\ ctrls' = m.ctrls
    /\ pm' = m.pm
    /\ regs' = m.regs
    /\ try_format' = m.try_format
    /\ streaming' = nowstreaming
    /\ log' = m.log
    /\ call' = [op |-> op, args |-> args, ret |-> m.ret, out |-> m.out]
    /\ sync' = nowsync

Commit(m, op, args, nowstreaming) == CommitAt(m, op, args, nowstreaming, sync)

\* No entry-point call is being looked at: the next one may be made.
Idle == call.op = "none"

NoCall == [op |-> "none", args |-> <<>>, ret |-> 0, out |-> <<>>]

\* The fault plans an action draws from: with `faults`, every plan that
\* differs on a call of n writes; without, the bus never fails.
PlansFor(faults, n) == IF faults THEN PlansUpTo(n) ELSE {NoFault}

\* s_stream(1): the caller enables a stream that is not enabled.
StreamOnF(faults) ==
    /\ Idle
    /\ ~streaming
    /\ \E power_ok \in BOOLEAN :
          \E plan \in PlansFor(faults,
                   imx585_set_stream(Machine(NoFault), TRUE, power_ok).nw) :
              \E m \in {imx585_set_stream(Machine(plan), TRUE, power_ok)} :
                  Commit(m, "stream_on", <<power_ok>>, m.ret = 0)

\* s_stream(0): the caller disables the stream it enabled.
StreamOffF(faults) ==
    /\ Idle
    /\ streaming
    /\ \E plan \in PlansFor(faults,
                 imx585_set_stream(Machine(NoFault), FALSE, TRUE).nw) :
          Commit(imx585_set_stream(Machine(plan), FALSE, TRUE), "stream_off", <<>>,
                 FALSE)

UserCtrls == {"gain", "hblank", "vblank", "exposure", "hflip", "vflip"}

\* VIDIOC_S_EXT_CTRLS on one control: a grabbed control is busy, the value
\* is validated against the range, then set.
v4l2_s_ext_ctrl(m, id, v) ==
    IF m.ctrls[id].grabbed THEN Ret(m, -EBUSY)
    ELSE v4l2_ctrl_s_ctrl(m, id, v)

SetCtrlF(faults, Inputs) ==
    /\ Idle
    /\ \E id \in UserCtrls :
          \E v \in Inputs[id] :
              \E plan \in PlansFor(faults, v4l2_s_ext_ctrl(Machine(NoFault), id, v).nw) :
                  Commit(v4l2_s_ext_ctrl(Machine(plan), id, v), "s_ctrl", <<id, v>>,
                         streaming)

\* set_fmt of the pad: a try-scope or an active-scope negotiation of
\* f = <<which, width, height, code>>.
SetFmtF(faults, Inputs) ==
    /\ Idle
    /\ \E f \in Inputs :
          \E plan \in PlansFor(faults,
                   imx585_set_fmt(Machine(NoFault), f[1], f[2], f[3], f[4]).nw) :
              Commit(imx585_set_fmt(Machine(plan), f[1], f[2], f[3], f[4]),
                     "set_fmt", f, streaming)

\* The caller has taken the result of the call: its record and its log are
\* dropped, the driver and sensor state stay.
Return ==
    /\ ~Idle
    /\ call' = NoCall
    /\ log' = <<>>
    /\ UNCHANGED <<imx585, ctrls, pm, regs, try_format, streaming, sync>>

----------------------------------------------------------------------------
(* Spec: start, stop, control writes and format negotiation on a bus that   *)
(* may fail.  The control values asked for vary the gain, the vertical     *)
(* blanking and the exposure, whose ranges depend on each other; the other *)
(* controls are written with their default value.                          *)

CtrlInputs ==
    [id \in UserCtrls |->
        CASE id = "gain"     -> {0, 34}
          [] id = "hblank"   -> {4032}
          [] id = "vblank"   -> {70, 74}
          [] id = "exposure" -> {8, 2250}
          [] id = "hflip"    -> {0}
          [] id = "vflip"    -> {0}]

\* The negotiations asked for: in the active scope the other code of the
\* catalog with a size that is not the mode's, in the try scope a code
\* that is not in the catalog.
FmtInputs ==
    { <<"ACTIVE", 1920, 1080, "SRGGB12_1X12">>,
      <<"TRY", 3856, 2180, "Y10_1X10">> }

StreamOn == StreamOnF(TRUE)

StreamOff == StreamOffF(TRUE)

SetCtrl == SetCtrlF(TRUE, CtrlInputs)

SetFmt == SetFmtF(TRUE, FmtInputs)

Next == StreamOn \/ StreamOff \/ SetCtrl \/ SetFmt \/ Return

Spec == Init /\ [][Next]_vars

----------------------------------------------------------------------------
(* Reading the log of a call.                                              *)

IsWrite(e) == e.t = "w"

Writes(l) == SelectSeq(l, IsWrite)

WritesTo(l, addrs) == {i \in DOMAIN l : l[i].t = "w" /\ l[i].a \in addrs}

Events(l, t) == {i \in DOMAIN l : l[i].t = t}

SomeWriteFailed(l) == \E i \in DOMAIN l : l[i].t = "w" /\ ~l[i].ok

SetMin(S) == CHOOSE x \in S : \A y \in S : x <= y

SetMax(S) == CHOOSE x \in S : \A y \in S : x >= y

Addrs(settings) == [i \in DOMAIN settings |-> settings[i][1]]

\* A power resume that succeeded is in the log of the call.
Resumed(l) == \E i \in DOMAIN l : l[i].t = "pm_resume_and_get" /\ l[i].ok

GainRegs == {IMX585_GAIN, IMX585_GAIN + 1}
HmaxRegs == {IMX585_HMAX, IMX585_HMAX + 1}
VmaxRegs == {IMX585_VMAX, IMX585_VMAX + 1, IMX585_VMAX + 2}
ExposureRegs == {IMX585_EXPOSURE, IMX585_EXPOSURE + 1, IMX585_EXPOSURE + 2}

\* The registers the control setters write.
ControlRegs ==
    {IMX585_REGHOLD, IMX585_FR_FDG_SEL0, IMX585_FLIP_WINMODEH, IMX585_FLIP_WINMODEV}
        \cup GainRegs \cup HmaxRegs \cup VmaxRegs \cup ExposureRegs

\* The addresses start() writes before the control replay, in order.
StartPrefixAddrs ==
    Addrs(imx585_global_settings)
        \o <<IMX585_INCK_SEL, IMX585_ADBIT, IMX585_MDBIT>>
        \o Addrs(imx585_modes[imx585.current_mode].mode_data)
        \o <<IMX585_CSI_LANE_MODE, IMX585_LANE_RATE>>

----------------------------------------------------------------------------
(* Claims about the start sequence.                                        *)

\* C1 (as claimed): a start() whose power resume succeeded writes, in this
\* order, the global program, INCK_SEL, ADBIT and MDBIT, the mode program,
\* the lane count, the lane rate, then registers of the control replay,
\* then STANDBY = 0, a 30 ms sleep and XMSTA = 0; once a write has failed
\* no write of a later step follows and start() returns an error.
C1_StartOrderAndAbort ==
    (call.op = "stream_on" /\ Resumed(log)) =>
        LET W  == Writes(log)
            n  == Len(W)
            np == Len(StartPrefixAddrs)
        IN  /\ \A i \in 1..n : i <= np => W[i].a = StartPrefixAddrs[i]
            /\ \A i \in 1..n : i > np =>
                  \/ W[i].a \in ControlRegs
                  \/ /\ W[i].a = IMX585_STANDBY /\ W[i].v = 0
                     /\ i >= n - 1
                     /\ i < n => W[i + 1].a = IMX585_XMSTA
                  \/ /\ W[i].a = IMX585_XMSTA /\ W[i].v = 0
                     /\ i = n
                     /\ W[i - 1].a = IMX585_STANDBY
            /\ \A i \in DOMAIN log :
                  (log[i].t = "w" /\ log[i].a = IMX585_STANDBY /\ log[i].ok) =>
                      (log[i + 1].t = "sleep" /\ log[i + 1].v = 30)
            /\ \A i \in 1..n : ~W[i].ok =>
                  /\ \A j \in (i + 1)..n : i > np /\ W[j].a \in ControlRegs
                  /\ call.ret < 0

\* A start() that ran into the bug: a write of the control replay failed,
\* yet the standby-clear write was issued afterwards.
C1_FailingRun ==
    /\ call.op = "stream_on"
    /\ \E i \in DOMAIN log, j \in DOMAIN log :
          /\ i < j
          /\ log[i].t = "w" /\ ~log[i].ok
          /\ log[j].t = "w" /\ log[j].a = IMX585_STANDBY

\* C2 (as claimed): in the control replay of a start() on which no write
\* fails, the first EXPOSURE register write comes after the GAIN write and
\* before the HMAX and the VMAX writes.
C2_ExposureBeforeBlanking ==
    (call.op = "stream_on" /\ call.ret = 0 /\ ~SomeWriteFailed(log)) =>
        /\ SetMin(WritesTo(log, GainRegs)) < SetMin(WritesTo(log, ExposureRegs))
        /\ SetMin(WritesTo(log, ExposureRegs)) < SetMin(WritesTo(log, HmaxRegs))
        /\ SetMin(WritesTo(log, ExposureRegs)) < SetMin(WritesTo(log, VmaxRegs))

\* C2 (amended): the control replay of start() calls the setters in the
\* order the controls were added at attach: gain, horizontal blanking,
\* vertical blanking, exposure, then the flips.  On the bus, every HMAX
\* write follows a successful GAIN write, every VMAX write follows a
\* successful HMAX write, and every EXPOSURE write follows the buffered
\* write of VMAX: the first EXPOSURE write is the re-write that the
\* vertical blanking setter makes, after GAIN, HMAX and VMAX.
C2_ReplayInHandlerOrder ==
    (call.op = "stream_on") =>
        /\ \A j \in WritesTo(log, HmaxRegs) :
              \E i \in WritesTo(log, GainRegs) : i < j /\ log[i].ok
        /\ \A j \in WritesTo(log, VmaxRegs) :
              \E i \in WritesTo(log, HmaxRegs) : i < j /\ log[i].ok
        /\ \A j \in WritesTo(log, ExposureRegs) :
              \E i \in Events(log, "buf") : i < j /\ log[i].a = IMX585_VMAX
        /\ \A i \in Events(log, "s_ctrl"), j \in Events(log, "s_ctrl") :
              (log[i].a = "exposure" /\ log[j].a \in {"gain", "hblank", "vblank"})
                  => j < i
        /\ (call.ret = 0 /\ ~SomeWriteFailed(log)) =>
              /\ SetMin(WritesTo(log, GainRegs)) < SetMin(WritesTo(log, HmaxRegs))
              /\ SetMin(WritesTo(log, HmaxRegs)) < SetMin(WritesTo(log, VmaxRegs))
              /\ SetMin(WritesTo(log, VmaxRegs)) < SetMin(WritesTo(log, ExposureRegs))

\* A start() completed with nothing failing: all four registers written.
C2_Witness ==
    /\ call.op = "stream_on" /\ call.ret = 0 /\ ~SomeWriteFailed(log)
    /\ WritesTo(log, GainRegs) # {} /\ WritesTo(log, HmaxRegs) # {}
    /\ WritesTo(log, VmaxRegs) # {} /\ WritesTo(log, ExposureRegs) # {}

C4_PowerFailureAborts ==
    [][(call'.op = "stream_on" /\ ~Resumed(log')) =>
          /\ Writes(log') = <<>>
          /\ call'.ret < 0
          /\ pm' = pm /\ pm'.usage_count = 0 /\ ~pm'.active
          /\ imx585' = imx585 /\ ctrls' = ctrls /\ regs' = regs
          /\ ~streaming'
          /\ ~ctrls'["hflip"].grabbed /\ ~ctrls'["vflip"].grabbed]_vars

\* An enable request whose power resume failed.
C4_Witness ==
    /\ call.op = "stream_on" /\ call.args = <<FALSE>> /\ ~Resumed(log)
    /\ call.ret < 0

\* C5 (as claimed): every stop() writes STANDBY = 1, sleeps 30 ms and then
\* writes XMSTA = 1, also when the STANDBY write failed.
C5_StopAlwaysMasterStop ==
    (call.op = "stream_off") =>
        LET W == Writes(log)
        IN  /\ Len(W) = 2
            /\ W[1].a = IMX585_STANDBY /\ W[1].v = 1
            /\ W[2].a = IMX585_XMSTA /\ W[2].v = 1

\* C5 (amended): every stop() first writes STANDBY = 1.  When that write
\* succeeds, stop() sleeps 30 ms and then writes XMSTA = 1, and nothing
\* else; when it fails, stop() issues no further write and no sleep.
C5_StopSequence ==
    (call.op = "stream_off") =>
        LET E == SelectSeq(log, LAMBDA e : e.t \in {"w", "sleep"})
        IN  /\ Len(E) >= 1
            /\ E[1] = Ev("w", IMX585_STANDBY, 1, E[1].ok)
            /\ E[1].ok =>
                  /\ Len(E) = 3
                  /\ E[2] = Ev("sleep", 0, 30, TRUE)
                  /\ E[3] = Ev("w", IMX585_XMSTA, 1, E[3].ok)
            /\ ~E[1].ok => Len(E) = 1

\* A stop() whose STANDBY write failed.
C5_Witness ==
    /\ call.op = "stream_off"
    /\ \E i \in DOMAIN log :
          log[i].t = "w" /\ log[i].a = IMX585_STANDBY /\ ~log[i].ok

\* C6: a disable request drops the power reference exactly once, after
\* the stop sequence, and returns 0 whether or not a write of the stop
\* sequence failed; afterwards no reference is held and the flips are not
\* grabbed.
C6_DisableReleasesPower ==
    (call.op = "stream_off") =>
        /\ call.ret = 0
        /\ Cardinality(Events(log, "pm_put")) = 1
        /\ \A i \in DOMAIN log : log[i].t = "w" => i < SetMin(Events(log, "pm_put"))
        /\ pm.usage_count = 0 /\ ~pm.active
        /\ ~streaming
        /\ ~ctrls["hflip"].grabbed /\ ~ctrls["vflip"].grabbed

\* A disable request during which a write failed.
C6_Witness ==
    /\ call.op = "stream_off" /\ SomeWriteFailed(log)
    /\ call.ret = 0 /\ pm.usage_count = 0

\* The index of the first event of type t after position i of the log
\* (0 when there is none).
NextEvent(l, t, i) ==
    LET S == {j \in Events(l, t) : j > i}
    IN  IF S = {} THEN 0 ELSE SetMin(S)

\* The writes and sleeps of the log strictly between positions i and j.
Between(l, i, j) ==
    SelectSeq(SubSeq(l, i + 1, j - 1), LAMBDA e : e.t \in {"w", "sleep"})

\* C7 (as claimed): every buffered write that set the hold latch writes
\* REGHOLD = 0 before it returns, also when a byte write failed, and it
\* returns the error of its first failed write.
C7_HoldAlwaysReleased ==
    \A i \in Events(log, "buf") :
        LET j == NextEvent(log, "buf_ret", i)
            E == Between(log, i, j)
        IN  /\ j > 0
            /\ (E # <<>> /\ E[1].ok) =>
                  \E k \in 2..Len(E) : E[k].a = IMX585_REGHOLD /\ E[k].v = 0
            /\ (\E k \in 1..Len(E) : ~E[k].ok) => log[j].v = -EIO

\* A buffered write that returned with the latch set and never released.
C7_FailingRun ==
    \E i \in Events(log, "buf") :
        LET j == NextEvent(log, "buf_ret", i)
            E == Between(log, i, j)
        IN  /\ j > 0 /\ Len(E) >= 2 /\ E[1].ok /\ ~E[Len(E)].ok
            /\ E[Len(E)].a # IMX585_REGHOLD
            /\ log[j].v = -EIO

\* C8: a buffered write of an N-byte value that returns 0 issued exactly
\* REGHOLD = 1, then byte i of the value (bits 8i .. 8i+7) to base + i for
\* i = 0 .. N-1 in increasing order, then REGHOLD = 0, and nothing else.
C8_BufferedWriteSequence ==
    \A i \in Events(log, "buf") :
        LET j == NextEvent(log, "buf_ret", i)
            E == Between(log, i, j)
            base == log[i].a
            N == log[i].v[1]
            value == log[i].v[2]
        IN  (j > 0 /\ log[j].v = 0) =>
              /\ Len(E) = N + 2
              /\ E[1] = Ev("w", IMX585_REGHOLD, 1, TRUE)
              /\ \A b \in 0..(N - 1) :
                    E[b + 2] = Ev("w", base + b, (value \div (2 ^ (8 * b))) % 256, TRUE)
              /\ E[N + 2] = Ev("w", IMX585_REGHOLD, 0, TRUE)

\* A three-byte buffered write of a value above 255 that returned 0.
C8_Witness ==
    \E i \in Events(log, "buf") :
        LET j == NextEvent(log, "buf_ret", i)
        IN  /\ j > 0 /\ log[j].v = 0
            /\ log[i].v[1] = 3 /\ log[i].v[2] > 255

\* C9: a register program replay writes the entries in their order; the
\* first failed write ends it at once with that error, with no later
\* entry written, no settle wait and no write to undo an earlier one
\* (none by the caller either); only a replay whose writes all succeeded
\* waits 10 ms, after the last entry and before it returns 0.
C9_ReplayInOrderAbortsOnFailure ==
    \A i \in Events(log, "arr") :
        LET j == NextEvent(log, "arr_ret", i)
            E == Between(log, i, j)
            settings == log[i].a
            n == log[i].v
            W == SelectSeq(E, IsWrite)
            k == Len(W)
        IN  /\ j > 0 /\ k <= n
            /\ \A p \in 1..k :
                  /\ E[p].t = "w"
                  /\ E[p].a = settings[p][1] /\ E[p].v = settings[p][2]
                  /\ p < k => E[p].ok
            /\ (k > 0 /\ ~W[k].ok) =>
                  /\ Len(E) = k
                  /\ log[j].v = -EIO
                  /\ \A q \in (j + 1)..Len(log) : log[q].t # "w"
            /\ (k = 0 \/ W[k].ok) =>
                  /\ k = n
                  /\ Len(E) = n + 1
                  /\ E[n + 1] = Ev("sleep", 0, 10, TRUE)
                  /\ log[j].v = 0

\* A replay that failed at an entry after the first one.
C9_Witness ==
    \E i \in Events(log, "arr") :
        LET j == NextEvent(log, "arr_ret", i)
            W == SelectSeq(Between(log, i, j), IsWrite)
        IN  j > 0 /\ Len(W) >= 2 /\ Len(W) < log[i].v /\ ~W[Len(W)].ok

\* C10 (as claimed): in every reachable state the exposure control has the
\* range [8, vblank value + mode height - 4] with step 2.
C10_ExposureRange ==
    /\ ctrls["exposure"].minimum = IMX585_EXPOSURE_MIN
    /\ ctrls["exposure"].maximum =
           ctrls["vblank"].cur + imx585_modes[imx585.current_mode].height
               - IMX585_EXPOSURE_OFFSET
    /\ ctrls["exposure"].step = IMX585_EXPOSURE_STEP

\* A vertical blanking change made while the sensor is powered down: the
\* exposure maximum is still the one of attach, the default vertical total
\* of the mode less two lines.
C10_FailingRun ==
    /\ call.op = "s_ctrl" /\ call.args[1] = "vblank" /\ call.ret = 0
    /\ ~streaming
    /\ ctrls["vblank"].cur # ctrls["vblank"].default_value
    /\ ctrls["exposure"].maximum = imx585_modes[imx585.current_mode].vmax - 2

----------------------------------------------------------------------------
(* SpecWide: the same entry points on a bus that never fails, for both     *)
(* variants of the sensor, with control values at and beside the ends of   *)
(* their ranges, an odd value of each blanking and both values of the      *)
(* horizontal flip, and with negotiations of either scope for codes in     *)
(* and out of each catalog.                                                *)

WideAttachConfigs ==
    { [compatible |-> c, num_data_lanes |-> 2,
       link_frequencies |-> {594000000}, clock_frequency |-> 24000000] :
      c \in {"sony,imx585", "sony,imx585-mono"} }

WideCtrlInputs ==
    [id \in UserCtrls |->
        CASE id = "gain"     -> {34}
          [] id = "hblank"   -> {4033, IMX585_HMAX_MAX - 3856}
          [] id = "vblank"   -> {70, 71, 74, IMX585_VMAX_MAX - 2180}
          [] id = "exposure" -> {8, 2246, IMX585_VMAX_MAX}
          [] id = "hflip"    -> {0, 1}
          [] id = "vflip"    -> {1}]

WideFmtInputs ==
    { <<"ACTIVE", 1920, 1080, "SRGGB12_1X12">>,
      <<"ACTIVE", 4000, 3000, "Y10_1X10">>,
      <<"TRY", 3856, 2180, "Y12_1X12">>,
      <<"TRY", 640, 480, "SRGGB10_1X10">> }

InitWide ==
    \E cfg \in WideAttachConfigs :
        \E m \in {imx585_probe(cfg)} :
            /\ m.ret = 0
            /\ imx585 = m.dev
            /\ ctrls = m.ctrls
            /\ pm = m.pm
            /\ regs = m.regs
            /\ try_format = imx585_entity_init_cfg(m, "TRY").try_format
            /\ streaming = FALSE
            /\ log = <<>>
            /\ call = NoCall
            /\ sync = SyncIdle

StreamOnWide == StreamOnF(FALSE)

StreamOffWide == StreamOffF(FALSE)

SetCtrlWide == SetCtrlF(FALSE, WideCtrlInputs)

SetFmtWide == SetFmtF(FALSE, WideFmtInputs)

NextWide == StreamOnWide \/ StreamOffWide \/ SetCtrlWide \/ SetFmtWide \/ Return

SpecWide == InitWide /\ [][NextWide]_vars

----------------------------------------------------------------------------
(* Claims about the control setters.                                       *)

\* The values of the buffered writes to a register, in the order of the log.
BufferedTo(l, reg) ==
    SelectSeq(l, LAMBDA e : e.t = "buf" /\ e.a = reg)

\* The call just made set the vertical blanking of a streaming sensor and
\* imx585_set_vmax() ran for it.
VBlankApplied ==
    /\ Idle
    /\ streaming
    /\ call'.op = "s_ctrl" /\ call'.args[1] = "vblank" /\ call'.ret = 0
    /\ BufferedTo(log', IMX585_VMAX) # <<>>

\* C11 (as claimed): after the vertical blanking v has been applied to a
\* powered sensor the exposure range is [8, v + height - 4] with step 2,
\* an exposure that is still in the range is unchanged, one above the new
\* maximum becomes the new maximum, and the last EXPOSURE write is
\* computed from the resulting exposure.
C11_VBlankClampsExposure ==
    [][VBlankApplied =>
        LET height == imx585_modes[imx585.current_mode].height
            v      == ctrls'["vblank"].cur
            max    == v + height - 4
            before == ctrls["exposure"].cur
            after  == ctrls'["exposure"].cur
            writes == BufferedTo(log', IMX585_EXPOSURE)
        IN  /\ ctrls'["exposure"].minimum = 8
            /\ ctrls'["exposure"].maximum = max
            /\ ctrls'["exposure"].step = 2
            /\ before <= max => after = before
            /\ before > max => after = max
            /\ writes # <<>>
            /\ writes[Len(writes)].v = <<3, height + v - after - 1>>]_vars

\* C11: a vertical blanking with an odd total was applied while the
\* exposure was above the new maximum: the exposure is now below the
\* maximum of its range.
C11_FailingRun ==
    /\ call.op = "s_ctrl" /\ call.args[1] = "vblank" /\ call.ret = 0
    /\ streaming
    /\ \E i \in Events(log, "s_ctrl") : log[i].a = "exposure"
    /\ ctrls["exposure"].cur < ctrls["exposure"].maximum

\* The call just made set the exposure of a streaming sensor and
\* imx585_set_exposure() ran for it.
ExposureApplied ==
    /\ Idle
    /\ streaming
    /\ call'.op = "s_ctrl" /\ call'.args[1] = "exposure" /\ call'.ret = 0
    /\ BufferedTo(log', IMX585_EXPOSURE) # <<>>

\* C12 (as claimed): in any reachable state an exposure e of the
\* advertised range, set on a powered sensor, is written once, as the
\* 3-byte value height + vblank - e - 1; that value is not negative (the
\* unsigned subtraction does not wrap) and at most the vertical total
\* less 5.
C12_ExposureRegister ==
    [][ExposureApplied =>
        LET height == imx585_modes[imx585.current_mode].height
            vmax   == height + ctrls["vblank"].cur
            e      == ctrls'["exposure"].cur
            writes == BufferedTo(log', IMX585_EXPOSURE)
        IN  /\ ctrls["exposure"].minimum <= e /\ e <= ctrls["exposure"].maximum
            /\ Len(writes) = 1
            /\ writes[1].v = <<3, vmax - e - 1>>
            /\ vmax - e - 1 >= 0
            /\ vmax - e - 1 <= vmax - 5]_vars

\* C12: an exposure has been written on a streaming sensor after a
\* vertical blanking that the sensor did not take: the value written is
\* not computed from the vertical blanking the control holds.
C12_FailingRun ==
    /\ call.op = "s_ctrl" /\ call.args[1] = "exposure" /\ call.ret = 0
    /\ streaming
    /\ ctrls["vblank"].val # ctrls["vblank"].cur
    /\ \E i \in Events(log, "buf") :
          /\ log[i].a = IMX585_EXPOSURE
          /\ log[i].v # <<3, imx585_modes[imx585.current_mode].height
                               + ctrls["vblank"].cur - ctrls["exposure"].cur - 1>>

\* The last value buffered to a register in the log is `value` in `n` bytes.
LastBuffered(l, reg, n, value) ==
    /\ BufferedTo(l, reg) # <<>>
    /\ BufferedTo(l, reg)[Len(BufferedTo(l, reg))].v = <<n, value>>

\* The last plain write to a register in the log carries `value`.
LastWritten(l, reg, value) ==
    /\ WritesTo(l, {reg}) # {}
    /\ l[SetMax(WritesTo(l, {reg}))].v = value

\* A control update made while the sensor is powered down: success, no
\* bus write, and nothing but the value of that control changes.
PoweredDownUpdate ==
    (Idle /\ ~streaming /\ call'.op = "s_ctrl") =>
        /\ call'.ret = 0
        /\ WritesTo(log', ControlRegs) = {}
        /\ Writes(log') = <<>>
        /\ regs' = regs /\ imx585' = imx585 /\ pm' = pm
        /\ \A id \in DOMAIN ctrls :
              IF id = call'.args[1]
              THEN /\ ctrls'[id].cur = std_validate(ctrls[id], call'.args[2])
                   /\ [ctrls'[id] EXCEPT !.cur = 0, !.val = 0]
                          = [ctrls[id] EXCEPT !.cur = 0, !.val = 0]
              ELSE ctrls'[id] = ctrls[id]

\* A start that succeeded wrote, in its replay, the register of each
\* control of `ids` from the value the control held before the start, and
\* left that value in the control.
ReplayWrites(ids) ==
    (Idle /\ call'.op = "stream_on" /\ call'.ret = 0) =>
        LET mode == imx585_modes[imx585.current_mode]
        IN  /\ \A id \in ids : ctrls'[id].cur = ctrls[id].cur
            /\ "gain" \in ids =>
                   LastBuffered(log', IMX585_GAIN, 2, ctrls["gain"].cur)
            /\ "hblank" \in ids =>
                   LastBuffered(log', IMX585_HMAX, 2,
                                (ctrls["hblank"].cur + mode.width) \div 2)
            /\ "vblank" \in ids =>
                   LastBuffered(log', IMX585_VMAX, 3,
                                ctrls["vblank"].cur + mode.height)
            /\ "exposure" \in ids =>
                   LastBuffered(log', IMX585_EXPOSURE, 3,
                                mode.height + ctrls["vblank"].cur
                                    - ctrls["exposure"].cur - 1)
            /\ "hflip" \in ids =>
                   LastWritten(log', IMX585_FLIP_WINMODEH, ctrls["hflip"].cur)
            /\ "vflip" \in ids =>
                   LastWritten(log', IMX585_FLIP_WINMODEV, ctrls["vflip"].cur)

\* C13 (as claimed): a control update made while the sensor is powered
\* down writes nothing to the bus, succeeds and changes only the value in
\* memory; and the value each of the six controls holds in memory at the
\* next successful start() is the one that start's replay writes to the
\* register of the control.
C13_PoweredDownThenReplay ==
    [][PoweredDownUpdate /\ ReplayWrites(UserCtrls)]_vars

\* C13: a start succeeded in whose replay the exposure was set twice:
\* once by the range update of the vertical-blanking setter, which changed
\* the value in memory, and once by the replay of the exposure itself.
C13_FailingRun ==
    /\ call.op = "stream_on" /\ call.ret = 0
    /\ Cardinality({i \in Events(log, "s_ctrl") : log[i].a = "exposure"}) = 2

----------------------------------------------------------------------------
(* Claims about the flips, the format negotiation and the blanking         *)
(* registers.                                                              *)

FlipRegs == {IMX585_FLIP_WINMODEH, IMX585_FLIP_WINMODEV}

\* C14: both flips are grabbed exactly while the sensor streams (from a
\* start that succeeded to the stop), and no call made while it streams
\* writes a flip register or changes the value of a flip.
C14_FlipsProtectedWhileStreaming ==
    /\ [](/\ ctrls["hflip"].grabbed = streaming
          /\ ctrls["vflip"].grabbed = streaming)
    /\ [][streaming =>
             /\ WritesTo(log', FlipRegs) = {}
             /\ ctrls'["hflip"].cur = ctrls["hflip"].cur
             /\ ctrls'["vflip"].cur = ctrls["vflip"].cur]_vars

\* C14: a change of the horizontal flip was asked for while streaming and
\* refused; the flip keeps its value.
C14_Witness ==
    /\ streaming
    /\ call.op = "s_ctrl" /\ call.args = <<"hflip", 1>>
    /\ call.ret = -EBUSY
    /\ ctrls["hflip"].cur = 0
    /\ ctrls["hflip"].grabbed

\* C16: a negotiation in the try scope, whatever the size and the code
\* asked for, leaves the driver state as it was: the mode, the format and
\* the bit depth, every control with its range and value, the registers
\* and the power state; it writes nothing to the bus.
C16_TryLeavesDeviceState ==
    [][(Idle /\ call'.op = "set_fmt" /\ call'.args[1] = "TRY") =>
          /\ imx585' = imx585
          /\ ctrls' = ctrls
          /\ regs' = regs /\ pm' = pm /\ streaming' = streaming
          /\ log' = <<>>
          /\ call'.ret = 0]_vars

\* C16: a try-scope negotiation has been made for a code other than the
\* active one while the blanking and the exposure were away from the
\* defaults of the mode: the try format differs from the active format.
C16_Witness ==
    /\ call.op = "set_fmt" /\ call.args[1] = "TRY" /\ call.ret = 0
    /\ try_format = call.out
    /\ try_format.code # imx585.current_format.code
    /\ ctrls["vblank"].cur # ctrls["vblank"].minimum
    /\ ctrls["hblank"].cur # ctrls["hblank"].minimum
    /\ ctrls["exposure"].cur # ctrls["exposure"].default_value

\* C17 (as claimed): a negotiation in the active scope leaves the vertical
\* blanking with the range [vmax - height, VMAX_MAX - height] and the
\* horizontal blanking with the range [hmax - width, HMAX_MAX - width] of
\* the mode it selected, both at the minimum of their range, and the
\* pixel rate at its constant.
C17_ActiveResetsBlanking ==
    [][(Idle /\ call'.op = "set_fmt" /\ call'.args[1] = "ACTIVE") =>
          LET mode == imx585_modes[imx585'.current_mode]
          IN  /\ ctrls'["vblank"].minimum = mode.vmax - mode.height
              /\ ctrls'["vblank"].maximum = IMX585_VMAX_MAX - mode.height
              /\ ctrls'["hblank"].minimum = mode.hmax - mode.width
              /\ ctrls'["hblank"].maximum = IMX585_HMAX_MAX - mode.width
              /\ ctrls'["vblank"].cur = ctrls'["vblank"].minimum
              /\ ctrls'["hblank"].cur = ctrls'["hblank"].minimum
              /\ ctrls'["pixel_rate"].cur = imx585_calc_pixel_rate]_vars

\* C17: an active-scope negotiation on a streaming sensor has returned 0
\* although a write of the vertical-blanking reset failed: the vertical
\* blanking is not at the minimum of its range.
C17_FailingRun ==
    /\ call.op = "set_fmt" /\ call.args[1] = "ACTIVE" /\ call.ret = 0
    /\ streaming
    /\ SomeWriteFailed(log)
    /\ ctrls["vblank"].cur # ctrls["vblank"].minimum

\* The first entry of a mode catalog that is as near to width x height as
\* any other, by |dw| + |dh|.
NearestFirst(modes, width, height) ==
    LET error(i) == Abs(modes[i].width - width) + Abs(modes[i].height - height)
    IN  SetMin({i \in DOMAIN modes : \A j \in DOMAIN modes : error(i) <= error(j)})

\* C18: a negotiation of either scope returns the code asked for when the
\* catalog of the variant has it and the first code of the catalog when
\* not, with the width and height of the catalog mode nearest to the size
\* asked for (the first such mode).
C18_NegotiatedFormat ==
    [][(Idle /\ call'.op = "set_fmt") =>
          LET codes   == {imx585.formats[i].code : i \in 1..IMX585_NUM_FORMATS}
              nearest == imx585_modes[NearestFirst(imx585_modes, call'.args[2],
                                                   call'.args[3])]
          IN  /\ call'.out.code = IF call'.args[4] \in codes
                                  THEN call'.args[4]
                                  ELSE imx585.formats[1].code
              /\ call'.out.width = nearest.width
              /\ call'.out.height = nearest.height
              /\ call'.args[1] = "TRY" => try_format' = call'.out
              /\ call'.args[1] = "ACTIVE" => imx585'.current_format = call'.out]_vars

\* C18: a code that the catalog of the variant does not have was asked
\* for with a size that is not a mode's: the first code of the catalog
\* and the size of the mode came back.
C18_Witness ==
    /\ call.op = "set_fmt" /\ call.ret = 0
    /\ \A i \in 1..IMX585_NUM_FORMATS : imx585.formats[i].code # call.args[4]
    /\ call.out.code = imx585.formats[1].code
    /\ call.args[2] # call.out.width /\ call.args[3] # call.out.height

\* A control write through the setter of one of `ids` stops at the first
\* bus write that fails and returns an error.
SetterPropagates(ids) ==
    (call.op = "s_ctrl" /\ call.args[1] \in ids) =>
        \A i \in DOMAIN log :
            (log[i].t = "w" /\ ~log[i].ok) =>
                /\ call.ret < 0
                /\ \A j \in DOMAIN log : j > i => log[j].t # "w"

\* C19 (as claimed): a bus write that fails inside the setter of the gain,
\* the exposure, the horizontal or the vertical blanking is the last write
\* of the setter, and the setter returns an error; so the vertical-blanking
\* setter does not go on to the exposure after a failed VMAX write and
\* reports a failed exposure re-write.
C19_SetterFailurePropagates ==
    SetterPropagates({"gain", "exposure", "hblank", "vblank"})

\* C19: a vertical-blanking update on a streaming sensor has returned 0
\* although a write of its exposure re-write failed.
C19_FailingRun ==
    /\ call.op = "s_ctrl" /\ call.args[1] = "vblank"
    /\ streaming
    /\ call.ret = 0
    /\ \E i \in WritesTo(log, ExposureRegs \cup {IMX585_REGHOLD}) : ~log[i].ok

\* Every buffered write to `reg` in the log carries `value` in `n` bytes,
\* written low byte first behind the REGHOLD write.
BufferedAs(l, reg, n, value) ==
    \A i \in Events(l, "buf") :
        l[i].a = reg =>
            /\ l[i].v = <<n, value>>
            /\ \A k \in 0..(n - 1) :
                  /\ l[i + 2 + k].t = "w"
                  /\ l[i + 2 + k].a = reg + k
                  /\ l[i + 2 + k].v = ByteOf(value, k)

\* C20: the horizontal-blanking setter writes (hblank + width) / 2, rounded
\* down, as 2 bytes to HMAX and the vertical-blanking setter writes
\* vblank + height as 3 bytes to VMAX; for every value of the advertised
\* ranges the register value fits: HMAX in 16 bits, VMAX in 20 bits.
C20_BlankingRegisters ==
    LET mode == imx585_modes[imx585.current_mode]
    IN  /\ BufferedAs(log, IMX585_HMAX, 2, (ctrls["hblank"].cur + mode.width) \div 2)
        /\ BufferedAs(log, IMX585_VMAX, 3, ctrls["vblank"].cur + mode.height)
        /\ ctrls["hblank"].minimum >= 0
        /\ (ctrls["hblank"].maximum + mode.width) \div 2 <= IMX585_HMAX_MAX
        /\ ctrls["vblank"].minimum >= 0
        /\ ctrls["vblank"].maximum + mode.height <= IMX585_VMAX_MAX

\* C20: an odd horizontal total has been written on a streaming sensor,
\* halved and rounded down, while the vertical blanking was at the
\* maximum of its range.
C20_Witness ==
    /\ call.op = "s_ctrl" /\ call.args[1] = "hblank" /\ call.ret = 0
    /\ streaming
    /\ (ctrls["hblank"].cur + imx585_modes[imx585.current_mode].width) % 2 = 1
    /\ BufferedTo(log, IMX585_HMAX) # <<>>
    /\ ctrls["vblank"].cur = ctrls["vblank"].maximum

----------------------------------------------------------------------------
(* SpecLock: the entry points called at the same time, each by a caller of *)
(* its own, on a bus that never fails.  A caller is inside an entry point  *)
(* from the step that enters it, which takes the mutex the code takes      *)
(* there, to the step that leaves it, which makes the changes of the      *)
(* entry point and gives the mutex back.  imx585_set_fmt(),               *)
(* imx585_get_fmt() and the crop case of imx585_get_selection() take       *)
(* imx585->lock.  The control framework calls imx585_set_ctrl() with the   *)
(* lock of the control handler held, and imx585_probe() leaves that lock   *)
(* at the handler's own mutex.  imx585_set_stream() takes no lock; the     *)
(* control replay of its start sequence takes the lock of the handler.     *)

DataVars == <<imx585, ctrls, pm, regs, try_format, streaming, log, call>>

Inside(c) == sync.at[c] = "in"

LockCtrlInputs ==
    [id \in UserCtrls |->
        CASE id = "gain"   -> {34}
          [] id = "vblank" -> {74}
          [] OTHER         -> {}]

LockStreamEnter ==
    /\ ~Inside("set_stream")
    /\ sync' = [sync EXCEPT !.at["set_stream"] = "in"]
    /\ UNCHANGED DataVars

LockStreamLeave ==
    /\ Inside("set_stream")
    /\ ~streaming => sync.hdl = "none"
    /\ \E m \in {imx585_set_stream(Machine(NoFault), ~streaming, TRUE)} :
          CommitAt(m, IF streaming THEN "stream_off" ELSE "stream_on", <<TRUE>>,
                   ~streaming /\ m.ret = 0,
                   [sync EXCEPT !.at["set_stream"] = "out"])

LockCtrlEnter ==
    /\ ~Inside("s_ctrl")
    /\ sync.hdl = "none"
    /\ sync' = [sync EXCEPT !.hdl = "s_ctrl", !.at["s_ctrl"] = "in"]
    /\ UNCHANGED DataVars

LockCtrlLeave ==
    /\ Inside("s_ctrl")
    /\ \E id \in UserCtrls :
          \E v \in LockCtrlInputs[id] :
              CommitAt(v4l2_s_ext_ctrl(Machine(NoFault), id, v), "s_ctrl", <<id, v>>,
                       streaming,
                       [sync EXCEPT !.hdl = "none", !.at["s_ctrl"] = "out"])

LockFmtEnter ==
    /\ ~Inside("set_fmt")
    /\ sync.lock = "none"
    /\ sync' = [sync EXCEPT !.lock = "set_fmt", !.at["set_fmt"] = "in"]
    /\ UNCHANGED DataVars

LockFmtLeave ==
    /\ Inside("set_fmt")
    /\ \E f \in FmtInputs :
          CommitAt(imx585_set_fmt(Machine(NoFault), f[1], f[2], f[3], f[4]),
                   "set_fmt", f, streaming,
                   [sync EXCEPT !.lock = "none", !.at["set_fmt"] = "out"])

LockGetFmtEnter ==
    /\ ~Inside("get_fmt")
    /\ sync.lock = "none"
    /\ sync' = [sync EXCEPT !.lock = "get_fmt", !.at["get_fmt"] = "in"]
    /\ UNCHANGED DataVars

LockGetFmtLeave ==
    /\ Inside("get_fmt")
    /\ \E which \in {"ACTIVE", "TRY"} :
          CommitAt(imx585_get_fmt(Machine(NoFault), which), "get_fmt", <<which>>,
                   streaming,
                   [sync EXCEPT !.lock = "none", !.at["get_fmt"] = "out"])

LockGetCropEnter ==
    /\ ~Inside("get_selection")
    /\ sync.lock = "none"
    /\ sync' = [sync EXCEPT !.lock = "get_selection", !.at["get_selection"] = "in"]
    /\ UNCHANGED DataVars

LockGetCropLeave ==
    /\ Inside("get_selection")
    /\ \E which \in {"ACTIVE", "TRY"} :
          CommitAt(imx585_get_selection(Machine(NoFault), "CROP", which),
                   "get_selection", <<"CROP", which>>, streaming,
                   [sync EXCEPT !.lock = "none", !.at["get_selection"] = "out"])

NextLock ==
    \/ LockStreamEnter \/ LockStreamLeave
    \/ LockCtrlEnter \/ LockCtrlLeave
    \/ LockFmtEnter \/ LockFmtLeave
    \/ LockGetFmtEnter \/ LockGetFmtLeave
    \/ LockGetCropEnter \/ LockGetCropLeave

SpecLock == Init /\ [][NextLock]_vars

\* The entry points that change the driver state or write to the bus.
Mutators == {"set_fmt", "s_ctrl", "set_stream"}

\* C15 (as claimed): one lock serializes the entry points: while a caller
\* is inside the active format negotiation, a control write or start/stop,
\* no caller is inside another of these and none is inside a get-format
\* or crop query.
C15_SingleLockSerializes ==
    \A a \in Mutators : Inside(a) => \A b \in Callers \ {a} : ~Inside(b)

\* C15: callers are inside imx585_set_stream(), imx585_set_ctrl() and
\* imx585_set_fmt() at the same time, each holding a different lock or
\* none.
C15_FailingRun ==
    /\ Inside("set_stream") /\ Inside("s_ctrl") /\ Inside("set_fmt")
    /\ sync.lock = "set_fmt" /\ sync.hdl = "s_ctrl"

----------------------------------------------------------------------------
(* Claims about the gain, the attach and the bit depth.                    *)

\* C21: the gain setter sends the gain as a 2-byte buffered write, low
\* byte first, to the gain register; when that write succeeded the next
\* bus write is the conversion-gain select, 1 (high) for a gain under
\* 0x22 and 0 (low) otherwise; when it failed the select is not written.
C21_GainThenConversionGain ==
    \A i \in Events(log, "buf") :
        log[i].a = IMX585_GAIN =>
            LET j      == NextEvent(log, "buf_ret", i)
                g      == log[i].v[2]
                select == {k \in WritesTo(log, {IMX585_FR_FDG_SEL0}) : k > i}
            IN  /\ j > 0
                /\ log[i].v = <<2, ctrls["gain"].val>>
                /\ log[j].v = 0 =>
                      /\ Between(log, i, j) =
                             << Ev("w", IMX585_REGHOLD, 1, TRUE),
                                Ev("w", IMX585_GAIN, g % 256, TRUE),
                                Ev("w", IMX585_GAIN + 1, (g \div 256) % 256, TRUE),
                                Ev("w", IMX585_REGHOLD, 0, TRUE) >>
                      /\ select = {j + 1}
                      /\ log[j + 1].v = IF g < 34 THEN 1 ELSE 0
                /\ log[j].v # 0 => select = {}

\* C21: the gain 0x22 has been set on a streaming sensor: the select was
\* written as low conversion gain.
C21_Witness ==
    /\ call.op = "s_ctrl" /\ call.args = <<"gain", 34>> /\ call.ret = 0
    /\ streaming
    /\ \E k \in WritesTo(log, {IMX585_FR_FDG_SEL0}) : log[k].v = 0 /\ log[k].ok

----------------------------------------------------------------------------
(* SpecAttach: imx585_probe() on every device-tree configuration of a      *)
(* small space, with lane counts, declared link frequencies and clock      *)
(* frequencies the driver takes and ones it refuses.  An attach that       *)
(* failed registers no subdevice, so no entry point can be called after    *)
(* it; after one that succeeded the stream is started and stopped on a     *)
(* bus that may fail.                                                      *)

AttachClocks == {74250000, 37125000, 72000000, 27000000, 24000000, 25000000, 0}

AttachLanes == {1, 2, 3, 4}

AttachLinkFreqs == {{}, {594000000}, {297000000}, {297000000, 594000000}}

AttachSpace ==
    { [compatible |-> "sony,imx585", num_data_lanes |-> n,
       link_frequencies |-> lf, clock_frequency |-> f] :
      n \in AttachLanes, lf \in AttachLinkFreqs, f \in AttachClocks }

\* The state imx585_probe() leaves for a configuration, with its result.
InitAttach ==
    \E cfg \in AttachSpace :
        \E m \in {imx585_probe(cfg)} :
            /\ imx585 = m.dev
            /\ ctrls = m.ctrls
            /\ pm = m.pm
            /\ regs = m.regs
            /\ try_format = IF m.ret = 0
                            THEN imx585_entity_init_cfg(m, "TRY").try_format
                            ELSE m.try_format
            /\ streaming = FALSE
            /\ log = <<>>
            /\ call = [op |-> "probe", args |-> <<cfg>>, ret |-> m.ret, out |-> <<>>]
            /\ sync = SyncIdle

\* The subdevice is registered: the attach did not fail.
Usable == ~(call.op = "probe" /\ call.ret # 0)

StreamOnAttach == Usable /\ StreamOnF(TRUE)

StreamOffAttach == Usable /\ StreamOffF(FALSE)

ReturnAttach == Usable /\ Return

NextAttach == StreamOnAttach \/ StreamOffAttach \/ ReturnAttach

SpecAttach == InitAttach /\ [][NextAttach]_vars

\* The input-clock-select code documented for each clock frequency.
DocumentedInckSel ==
    [f \in {74250000, 37125000, 72000000, 27000000, 24000000} |->
        CASE f = 74250000 -> 0
          [] f = 37125000 -> 1
          [] f = 72000000 -> 2
          [] f = 27000000 -> 3
          [] f = 24000000 -> 4]

\* The link frequency a lane count needs declared.
ExpectedLinkFreq(n) == IF n = 2 THEN 594000000 ELSE 297000000

\* The lane count and the link frequencies of a configuration are ones
\* the attach takes.
LanesAndLinksFit(cfg) ==
    /\ cfg.num_data_lanes \in {2, 4}
    /\ ExpectedLinkFreq(cfg.num_data_lanes) \in cfg.link_frequencies

\* C22: an attach with a clock frequency of the table selects the code of
\* that frequency and no other, an attach with any other frequency fails;
\* the code is never changed afterwards and is the value of every write
\* to the input-clock-select register, of which every start that
\* succeeded has one.
C22_ClockSelect ==
    /\ [](call.op = "probe" =>
             LET f == call.args[1].clock_frequency
             IN  /\ f \notin DOMAIN DocumentedInckSel => call.ret < 0
                 /\ (f \in DOMAIN DocumentedInckSel
                        /\ LanesAndLinksFit(call.args[1])) =>
                        /\ call.ret = 0
                        /\ imx585.inck_sel = DocumentedInckSel[f])
    /\ [](/\ \A i \in WritesTo(log, {IMX585_INCK_SEL}) : log[i].v = imx585.inck_sel
          /\ (call.op = "stream_on" /\ call.ret = 0) =>
                 Cardinality(WritesTo(log, {IMX585_INCK_SEL})) = 1)
    /\ [][imx585'.inck_sel = imx585.inck_sel]_vars

\* C22: a start has succeeded after an attach with 72 MHz: it wrote 2 to
\* the input-clock-select register.
C22_Witness ==
    /\ call.op = "stream_on" /\ call.ret = 0
    /\ imx585.inck_sel = 2
    /\ \E i \in WritesTo(log, {IMX585_INCK_SEL}) : log[i].v = 2 /\ log[i].ok

\* C23: an attach with a lane count other than 2 and 4, or without the
\* link frequency of its lane count among those declared, fails, and
\* after a failed attach no entry point is ever called; whenever the
\* attach has succeeded the lane count is 2 or 4.
C23_LanesAndLinkFrequencies ==
    /\ [](/\ (call.op = "probe" /\ ~LanesAndLinksFit(call.args[1])) => call.ret < 0
          /\ Usable => (imx585.nlanes \in {2, 4}
                          /\ ExpectedLinkFreq(imx585.nlanes)
                                 = imx585_link_freqs_ptr(imx585.nlanes)[1]))
    /\ [][Usable /\ Usable']_vars

\* C23: an attach with 4 lanes and only the 2-lane link frequency
\* declared has failed.
C23_Witness ==
    /\ call.op = "probe" /\ call.ret = -EINVAL
    /\ call.args[1].num_data_lanes = 4
    /\ call.args[1].link_frequencies = {594000000}
    /\ call.args[1].clock_frequency = 24000000

\* The bit depth the catalog of the variant gives for a pixel code (0 for
\* a code that is not in the catalog).
DepthOf(code) ==
    LET S == {i \in DOMAIN imx585.formats : imx585.formats[i].code = code}
    IN  IF S = {} THEN 0 ELSE imx585.formats[SetMin(S)].bpp

\* The machine of a start() on the present state with a pixel code that
\* is in no catalog.
StartWithForeignCode(plan) ==
    imx585_start_streaming(
        [Machine(plan) EXCEPT !.dev.current_format.code = "RGB888_1X24"])

\* C24: in start() the writes to ADBIT and MDBIT carry the code of the
\* active pixel format, 0 for a 10-bit and 1 for a 12-bit format; MDBIT
\* is written directly after an ADBIT write that succeeded and not
\* otherwise, and a start() that succeeded wrote each of them once.  A
\* start() with a pixel code that is neither returns -EINVAL when the
\* writes before the bit depth succeed, and under every fault plan
\* writes neither ADBIT nor MDBIT and does not reach the mode program.
C24_BitDepthRegisters ==
    (call.op = "stream_on") =>
        LET depth == DepthOf(imx585.current_format.code)
            bits  == CASE depth = 10 -> 0 [] depth = 12 -> 1 [] OTHER -> -1
            A == WritesTo(log, {IMX585_ADBIT})
            M == WritesTo(log, {IMX585_MDBIT})
        IN  /\ bits \in {0, 1}
            /\ \A i \in A \cup M : log[i].v = bits
            /\ \A i \in A : log[i].ok => (i + 1) \in M
            /\ \A j \in M : (j - 1) \in A /\ log[j - 1].ok
            /\ Cardinality(A) <= 1
            /\ call.ret = 0 => Cardinality(A) = 1 /\ Cardinality(M) = 1
            /\ \A i \in Events(log, "step") :
                  log[i].a = "mode" => \E j \in M : j < i /\ log[j].ok
            /\ StartWithForeignCode(NoFault).ret = -EINVAL
            /\ \A plan \in PlansUpTo(NumGlobal + 2) :
                  LET r == StartWithForeignCode(plan)
                  IN  /\ r.ret < 0
                      /\ WritesTo(r.log, {IMX585_ADBIT, IMX585_MDBIT}) = {}
                      /\ \A i \in Events(r.log, "step") :
                            r.log[i].a \notin {"mode", "lane_count", "lane_rate",
                                             "control_replay", "standby_clear",
                                             "master_start"}
                      /\ Len(Writes(r.log)) <= NumGlobal + 1

\* C24: a start() has succeeded on a 12-bit format: it wrote 1 to ADBIT
\* and then to MDBIT.
C24_Witness ==
    /\ call.op = "stream_on" /\ call.ret = 0
    /\ imx585.bpp = 12
    /\ \E i \in WritesTo(log, {IMX585_ADBIT}) :
          /\ log[i].v = 1 /\ log[i].ok
          /\ log[i + 1] = Ev("w", IMX585_MDBIT, 1, TRUE)

----------------------------------------------------------------------------
(* Claims about the order of a vertical-blanking change, the power         *)
(* references and the formats.                                             *)

\* C25: every vertical-blanking change on a powered sensor, by the user,
\* by the control replay of start() or by an active negotiation, starts
\* with the buffered write of the vertical total to VMAX, which has
\* returned before the exposure range becomes [8, vmax - 4] step 2, and
\* every EXPOSURE write of the change comes after that range update, of
\* which there is at least the re-write imx585_set_vmax() makes.  When no
\* write of a user's change failed, the last value sent to EXPOSURE is
\* height + vblank - exposure - 1 for the values the controls then have.
C25_VBlankOrder ==
    /\ \A i \in Events(log, "buf") :
          log[i].a = IMX585_VMAX =>
              LET vmax == log[i].v[2]
                  done == NextEvent(log, "buf_ret", i)
                  r    == NextEvent(log, "range", i)
                  next == {k \in Events(log, "buf") : k > i /\ log[k].a = IMX585_VMAX}
                  end  == IF next = {} THEN Len(log) + 1 ELSE SetMin(next)
                  E    == {k \in Events(log, "buf") :
                              k > i /\ k < end /\ log[k].a = IMX585_EXPOSURE}
              IN  /\ done > i /\ r > done /\ r < end
                  /\ \A k \in WritesTo(log, VmaxRegs) : k > i /\ k < end => k < done
                  /\ log[r] = Ev("range", "exposure",
                                 <<8, vmax - 4, 2, vmax - 4>>, TRUE)
                  /\ E # {}
                  /\ \A k \in E : k > r
                  /\ \A k \in WritesTo(log, ExposureRegs) : k > i /\ k < end => k > r
    /\ (/\ call.op = "s_ctrl" /\ call.args[1] = "vblank"
        /\ BufferedTo(log, IMX585_VMAX) # <<>>
        /\ ~SomeWriteFailed(log)) =>
           /\ call.ret = 0
           /\ ctrls["vblank"].cur = call.args[2]
           /\ ctrls["vblank"].val = call.args[2]
           /\ ctrls["exposure"].val = ctrls["exposure"].cur
           /\ LastBuffered(log, IMX585_EXPOSURE, 3,
                           imx585_modes[imx585.current_mode].height
                               + ctrls["vblank"].cur - ctrls["exposure"].cur - 1)

\* C25: the vertical blanking of a streaming sensor was changed to 74
\* with no write failing: VMAX 2254 was sent, then the exposure sent
\* again.
C25_Witness ==
    /\ call.op = "s_ctrl" /\ call.args = <<"vblank", 74>> /\ call.ret = 0
    /\ streaming /\ ~SomeWriteFailed(log)
    /\ BufferedTo(log, IMX585_VMAX) # <<>>
    /\ BufferedTo(log, IMX585_VMAX)[1].v = <<3, 2254>>
    /\ BufferedTo(log, IMX585_EXPOSURE) # <<>>

\* The power references the first k events of a log take (a resume or a
\* get-if-in-use that succeeded) less those they drop.
NetReferences(l, k) ==
    Cardinality({i \in 1..k : l[i].t \in {"pm_resume_and_get", "pm_get_if_in_use"}
                                 /\ l[i].ok})
        - Cardinality({i \in 1..k : l[i].t = "pm_put"})

\* C26: with every disable following an enable that succeeded, one power
\* reference is held while streaming and none while idle, and the sensor
\* is powered while streaming; an enable that succeeds takes one
\* reference, an enable that fails takes none, a disable drops one, a
\* control write or a negotiation leaves the count as it was, and no
\* drop of a reference inside a call makes the count negative.
C26_PowerReferences ==
    /\ [](/\ pm.usage_count = (IF streaming THEN 1 ELSE 0)
          /\ streaming => pm.active)
    /\ [][/\ (call'.op = "stream_on" /\ call'.ret = 0) =>
                 (streaming' /\ pm'.usage_count = pm.usage_count + 1)
          /\ (call'.op = "stream_on" /\ call'.ret # 0) =>
                 (~streaming' /\ pm'.usage_count = pm.usage_count)
          /\ (call'.op = "stream_off") =>
                 (~streaming' /\ pm'.usage_count = pm.usage_count - 1)
          /\ (call'.op \in {"s_ctrl", "set_fmt"}) =>
                 (streaming' = streaming /\ pm'.usage_count = pm.usage_count)
          /\ (call'.op # "none") =>
                 /\ \A k \in Events(log', "pm_put") :
                       pm.usage_count + NetReferences(log', k) >= 0
                 /\ pm'.usage_count = pm.usage_count + NetReferences(log', Len(log'))
         ]_vars

\* C26: a control was written on a streaming sensor: the setter took a
\* reference and dropped it, and the one of the stream is held.
C26_Witness ==
    /\ call.op = "s_ctrl" /\ streaming
    /\ pm.usage_count = 1
    /\ \E i \in Events(log, "pm_get_if_in_use"), j \in Events(log, "pm_put") :
          log[i].ok /\ i < j

\* C28: in every state after the attach, whatever try and active
\* negotiations were made, the active pixel code is one of the two codes
\* of the catalog of the variant and bpp is the bit depth of that code,
\* 10 or 12 as the code says; so the bit-depth step of a start() finds a
\* code it knows, and no start() fails with the configuration error.
C28_ActiveFormatKnown ==
    /\ Len(imx585.formats) = IMX585_NUM_FORMATS
    /\ IMX585_NUM_FORMATS = 2
    /\ \E i \in 1..IMX585_NUM_FORMATS :
          /\ imx585.current_format.code = imx585.formats[i].code
          /\ imx585.bpp = imx585.formats[i].bpp
    /\ imx585.current_format.code \in {"SRGGB10_1X10", "Y10_1X10"} => imx585.bpp = 10
    /\ imx585.current_format.code \in {"SRGGB12_1X12", "Y12_1X12"} => imx585.bpp = 12
    /\ imx585.bpp \in {10, 12}
    /\ imx585_write_current_format(Machine(NoFault)).ret = 0
    /\ (call.op = "stream_on") =>
          /\ call.ret # -EINVAL
          /\ \A i \in Events(log, "step") :
                log[i].a = "bit_depth" => log[i + 1].t = "w" /\ log[i + 1].a = IMX585_ADBIT

\* C28: an active negotiation asked for a code that is not in the catalog
\* of the variant: the first code of the catalog is active, with its 10
\* bits.
C28_Witness ==
    /\ call.op = "set_fmt" /\ call.args[1] = "ACTIVE"
    /\ \A i \in DOMAIN imx585.formats : imx585.formats[i].code # call.args[4]
    /\ imx585.current_format.code = imx585.formats[1].code
    /\ imx585.bpp = 10

\* C29 (as claimed): while streaming, the values the sensor holds in
\* ADBIT and MDBIT are the code of the bit depth of the active pixel
\* format, 0 for 10 bits and 1 for 12 bits.
C29_BitDepthWhileStreaming ==
    streaming =>
        /\ regs[IMX585_ADBIT] = (IF imx585.bpp = 10 THEN 0 ELSE 1)
        /\ regs[IMX585_MDBIT] = (IF imx585.bpp = 10 THEN 0 ELSE 1)

\* C29: an active negotiation on a streaming sensor made the 12-bit code
\* the active one and wrote neither ADBIT nor MDBIT, which still hold the
\* 10-bit code of the start.
C29_FailingRun ==
    /\ streaming
    /\ call.op = "set_fmt" /\ call.args[1] = "ACTIVE" /\ call.ret = 0
    /\ imx585.current_format.code = "SRGGB12_1X12" /\ imx585.bpp = 12
    /\ regs[IMX585_ADBIT] = 0 /\ regs[IMX585_MDBIT] = 0
    /\ WritesTo(log, {IMX585_ADBIT, IMX585_MDBIT}) = {}

\* The most bus writes one start() can issue: the global program,
\* INCK_SEL, ADBIT and MDBIT, the mode program, the lane count and rate,
\* the replay (gain with its select, blanking, the exposure up to three
\* times, the flips), then STANDBY and XMSTA.
StartWritesBound ==
    Len(imx585_global_settings) + 1 + 2 + Len(imx585_1080p_common_settings) + 2
        + (4 + 1) + 4 + (5 + 5 + 5) + 5 + 2
        + 2

\* C30: an enable request on an idle sensor whose power resume succeeds
\* and on which no write fails returns 0 with the stream on, and its
\* last two writes are STANDBY = 0 and then XMSTA = 0; a disable request
\* returns with the stream off; no start() issues more than
\* StartWritesBound writes and no stop() more than two, whatever fails.
C30_StartAndStopTerminate ==
    /\ (call.op = "stream_on" /\ Resumed(log) /\ ~SomeWriteFailed(log)) =>
          LET W == Writes(log)
              n == Len(W)
          IN  /\ call.ret = 0 /\ streaming
              /\ n >= 2
              /\ W[n - 1] = Ev("w", IMX585_STANDBY, 0, TRUE)
              /\ W[n] = Ev("w", IMX585_XMSTA, 0, TRUE)
              /\ regs[IMX585_STANDBY] = 0 /\ regs[IMX585_XMSTA] = 0
    /\ (call.op = "stream_on") =>
          /\ streaming = (call.ret = 0)
          /\ Len(Writes(log)) <= StartWritesBound
    /\ (call.op = "stream_off") =>
          /\ ~streaming /\ call.ret = 0
          /\ Len(Writes(log)) <= 2

\* C30: an enable request went through with no write failing and issued
\* as many writes as a start() can: the stream is on.
C30_Witness ==
    /\ call.op = "stream_on" /\ call.args = <<TRUE>> /\ call.ret = 0
    /\ ~SomeWriteFailed(log) /\ streaming
    /\ Len(Writes(log)) = StartWritesBound
    /\ log[SetMax(WritesTo(log, {IMX585_XMSTA}))].v = 0

----------------------------------------------------------------------------
(* SpecBus: the entry points that write to the sensor, called at the same  *)
(* time, with the bus writes of each call issued one at a time.  A call    *)
(* takes its effect on the driver state when it enters, under the locks    *)
(* its code takes; its writes then go to the bus in the order of its log,  *)
(* each one a step that any write of another caller may precede or         *)
(* follow.  The bus itself carries one write at a time.                    *)

\* One thing a caller has still to do: a bus write, or taking or
\* releasing the mutex of the control handler.  `kind` says which part of
\* the driver issues a write.
Item(k, a, v, kind) == [k |-> k, a |-> a, v |-> v, kind |-> kind]

\* The writes of the log of a control write or of a negotiation.
WriteItems(l, kind) ==
    [i \in 1..Len(Writes(l)) |-> Item("w", Writes(l)[i].a, Writes(l)[i].v, kind)]

\* Event i of the log of imx585_set_stream() lies in the control replay:
\* after the step that begins it and before the step that follows it.
InReplay(l, i) ==
    /\ \E j \in 1..i : l[j].t = "step" /\ l[j].a = "control_replay"
    /\ \A j \in 1..i : ~(l[j].t = "step" /\ l[j].a = "standby_clear")

\* What the log of imx585_set_stream() leaves to do:
\* v4l2_ctrl_handler_setup() holds the mutex of the handler from the
\* start of the control replay until it returns.
StreamItems(l) ==
    SelectSeq(
        [i \in DOMAIN l |->
            CASE l[i].t = "step" /\ l[i].a = "control_replay" ->
                     Item("lock", 0, 0, "replay")
              [] l[i].t = "step" /\ l[i].a = "standby_clear" ->
                     Item("unlock", 0, 0, "replay")
              [] l[i].t = "start_ret" /\ InReplay(l, i) ->
                     Item("unlock", 0, 0, "replay")
              [] l[i].t = "w" ->
                     Item("w", l[i].a, l[i].v,
                          IF InReplay(l, i) THEN "replay" ELSE "stream")
              [] OTHER -> Item("skip", 0, 0, "none")],
        LAMBDA it : it.k # "skip")

\* No bus write was issued yet.
NoWrite == [by |-> "none", kind |-> "none", a |-> 0, v |-> 0, open |-> {}]

\* SyncIdle, with what each caller has still to do (todo), the callers
\* whose buffered write has set the hold latch and not yet cleared it
\* (open), and the last bus write with the hold sequences of other
\* callers that were open when it was issued (last).
SyncBusIdle ==
    [lock |-> "none", hdl |-> "none", at |-> [c \in Callers |-> "out"],
     todo |-> [c \in Mutators |-> <<>>], open |-> {}, last |-> NoWrite]

InitBus ==
    \E cfg \in AttachConfigs :
        \E m \in {imx585_probe(cfg)} :
            /\ m.ret = 0
            /\ imx585 = m.dev
            /\ ctrls = m.ctrls
            /\ pm = m.pm
            /\ regs = m.regs
            /\ try_format = imx585_entity_init_cfg(m, "TRY").try_format
            /\ streaming = FALSE
            /\ log = <<>>
            /\ call = NoCall
            /\ sync = SyncBusIdle

\* The next thing caller c has to do: a write goes to the bus; the mutex
\* of the handler is taken when it is free.
BusStep(c) ==
    /\ Inside(c)
    /\ sync.todo[c] # <<>>
    /\ \E it \in {Head(sync.todo[c])} :
          /\ it.k = "lock" => sync.hdl = "none"
          /\ sync' = [sync EXCEPT
                 !.todo[c] = Tail(@),
                 !.hdl  = CASE it.k = "lock" -> c
                            [] it.k = "unlock" -> "none"
                            [] OTHER -> @,
                 !.open = IF it.k = "w" /\ it.a = IMX585_REGHOLD
                          THEN (IF it.v = 1 THEN @ \cup {c} ELSE @ \ {c})
                          ELSE @,
                 !.last = IF it.k = "w"
                          THEN [by |-> c, kind |-> it.kind, a |-> it.a, v |-> it.v,
                                open |-> sync.open \ {c}]
                          ELSE @]
    /\ UNCHANGED DataVars

\* imx585_set_stream() takes no lock.
BusStreamEnter ==
    /\ ~Inside("set_stream")
    /\ \E m \in {imx585_set_stream(Machine(NoFault), ~streaming, TRUE)} :
          CommitAt(m, IF streaming THEN "stream_off" ELSE "stream_on", <<TRUE>>,
                   ~streaming /\ m.ret = 0,
                   [sync EXCEPT !.at["set_stream"] = "in",
                                !.todo["set_stream"] = StreamItems(m.log)])

BusStreamStep == BusStep("set_stream")

BusStreamLeave ==
    /\ Inside("set_stream")
    /\ sync.todo["set_stream"] = <<>>
    /\ sync' = [sync EXCEPT !.at["set_stream"] = "out"]
    /\ UNCHANGED DataVars

\* A control write of the user holds the mutex of the handler.
BusCtrlEnter ==
    /\ ~Inside("s_ctrl")
    /\ sync.hdl = "none"
    /\ \E id \in UserCtrls :
          \E v \in LockCtrlInputs[id] :
              \E m \in {v4l2_s_ext_ctrl(Machine(NoFault), id, v)} :
                  CommitAt(m, "s_ctrl", <<id, v>>, streaming,
                           [sync EXCEPT !.hdl = "s_ctrl", !.at["s_ctrl"] = "in",
                                        !.todo["s_ctrl"] = WriteItems(m.log, "user")])

BusCtrlStep == BusStep("s_ctrl")

BusCtrlLeave ==
    /\ Inside("s_ctrl")
    /\ sync.todo["s_ctrl"] = <<>>
    /\ sync' = [sync EXCEPT !.hdl = "none", !.at["s_ctrl"] = "out"]
    /\ UNCHANGED DataVars

\* imx585_set_fmt() holds imx585->lock and calls the control functions
\* without the mutex of the handler.
BusFmtEnter ==
    /\ ~Inside("set_fmt")
    /\ sync.lock = "none"
    /\ \E f \in FmtInputs :
          \E m \in {imx585_set_fmt(Machine(NoFault), f[1], f[2], f[3], f[4])} :
              CommitAt(m, "set_fmt", f, streaming,
                       [sync EXCEPT !.lock = "set_fmt", !.at["set_fmt"] = "in",
                                    !.todo["set_fmt"] = WriteItems(m.log, "negotiation")])

BusFmtStep == BusStep("set_fmt")

BusFmtLeave ==
    /\ Inside("set_fmt")
    /\ sync.todo["set_fmt"] = <<>>
    /\ sync' = [sync EXCEPT !.lock = "none", !.at["set_fmt"] = "out"]
    /\ UNCHANGED DataVars

NextBus ==
    \/ BusStreamEnter \/ BusStreamStep \/ BusStreamLeave
    \/ BusCtrlEnter \/ BusCtrlStep \/ BusCtrlLeave
    \/ BusFmtEnter \/ BusFmtStep \/ BusFmtLeave

SpecBus == InitBus /\ [][NextBus]_vars

\* C27 (as claimed): no write of a user's control write, of a control
\* write made by an active negotiation or of the control replay of
\* start() is issued while the hold sequence of another caller is open,
\* that is between its REGHOLD = 1 and its REGHOLD = 0.
C27_HoldSequencesApart ==
    sync.last.kind \in {"user", "negotiation", "replay"} => sync.last.open = {}

\* C27: a write of an active negotiation was issued between REGHOLD = 1
\* and REGHOLD = 0 of a user's control write.
C27_FailingRun ==
    /\ sync.last.by = "set_fmt" /\ sync.last.kind = "negotiation"
    /\ "s_ctrl" \in sync.last.open
    /\ Inside("s_ctrl") /\ sync.hdl = "s_ctrl"
    /\ Inside("set_fmt") /\ sync.lock = "set_fmt"

\* The part of C27 that the mutex of the handler gives: a user's control
\* write and the control replay of start() never write inside the hold
\* sequence of each other.
HandlerLockKeepsApart ==
    /\ sync.last.kind = "user" => "set_stream" \notin sync.last.open
    /\ sync.last.kind = "replay" => "s_ctrl" \notin sync.last.open

----------------------------------------------------------------------------
(* SpecSel: the calls of SpecWide and the selection query, for every       *)
(* target the driver answers and one it does not.                          *)

SelTargets == {"CROP", "NATIVE_SIZE", "CROP_DEFAULT", "CROP_BOUNDS", "COMPOSE"}

\* get_selection of the pad, in the active or the try scope.
GetSelection ==
    /\ Idle
    /\ \E target \in SelTargets, which \in {"ACTIVE", "TRY"} :
          Commit(imx585_get_selection(Machine(NoFault), target, which),
                 "get_selection", <<target, which>>, streaming)

NextSel ==
    StreamOnWide \/ StreamOffWide \/ SetCtrlWide \/ SetFmtWide \/ GetSelection \/ Return

SpecSel == InitWide /\ [][NextSel]_vars

\* Rectangle r lies inside rectangle s.
RectInside(r, s) ==
    /\ r.left >= s.left
    /\ r.top >= s.top
    /\ r.left + r.width <= s.left + s.width
    /\ r.top + r.height <= s.top + s.height

\* The rectangle a selection query of the present state reports.
Reported(target, which) == imx585_get_selection(Machine(NoFault), target, which).out

\* What holds of the selection queries: the bounds and the default crop
\* are (0, 20, 3856x2180) and lie inside the native size (0, 0, 3876x2204),
\* and a query changes nothing and writes nothing; a query for another
\* target returns -EINVAL with no rectangle.
SelectionBoundsAndTargets ==
    /\ [](/\ Reported("CROP_BOUNDS", "ACTIVE")
                 = [left |-> 0, top |-> 20, width |-> 3856, height |-> 2180]
          /\ Reported("CROP_DEFAULT", "ACTIVE") = Reported("CROP_BOUNDS", "ACTIVE")
          /\ Reported("NATIVE_SIZE", "ACTIVE")
                 = [left |-> 0, top |-> 0, width |-> 3876, height |-> 2204]
          /\ RectInside(Reported("CROP_BOUNDS", "ACTIVE"),
                        Reported("NATIVE_SIZE", "ACTIVE"))
          /\ (call.op = "get_selection") =>
                /\ log = <<>>
                /\ call.args[1] \in {"CROP", "NATIVE_SIZE", "CROP_DEFAULT", "CROP_BOUNDS"}
                       => call.ret = 0 /\ call.out = Reported(call.args[1], call.args[2])
                /\ call.args[1] \notin {"CROP", "NATIVE_SIZE", "CROP_DEFAULT",
                                        "CROP_BOUNDS"}
                       => call.ret = -EINVAL /\ call.out = <<>>)
    /\ [][call'.op = "get_selection" =>
              UNCHANGED <<imx585, ctrls, pm, regs, try_format, streaming>>]_vars

\* C31 (as claimed): for every mode of the catalog the crop reported for
\* the active scope lies inside the rectangle reported as crop bounds and
\* as default crop, (0, 20, 3856x2180), which lies inside the native size
\* (0, 0, 3876x2204); a query for any other target returns an error, and
\* no query writes to the bus or changes the state.
C31_CropInsideBounds ==
    /\ [](/\ \A i \in 1..IMX585_NUM_MODES :
                RectInside(imx585_modes[i].crop, Reported("CROP_BOUNDS", "ACTIVE"))
          /\ RectInside(Reported("CROP", "ACTIVE"), Reported("CROP_BOUNDS", "ACTIVE"))
          /\ (call.op = "get_selection" /\ call.args = <<"CROP", "ACTIVE">>) =>
                RectInside(call.out, Reported("CROP_BOUNDS", "ACTIVE")))
    /\ SelectionBoundsAndTargets

\* C31: the crop of the active scope was queried: it is (0, 20,
\* 3876x2204), wider and higher than the crop bounds and ending 20 lines
\* below the native size.
C31_FailingRun ==
    /\ call.op = "get_selection" /\ call.args = <<"CROP", "ACTIVE">> /\ call.ret = 0
    /\ call.out = [left |-> 0, top |-> 20, width |-> 3876, height |-> 2204]
    /\ ~RectInside(call.out, Reported("CROP_BOUNDS", "ACTIVE"))
    /\ ~RectInside(call.out, Reported("NATIVE_SIZE", "ACTIVE"))

====
